---- MODULE Spec2Model ----
(***************************************************************************)
(* A model of the agora_log structured-logging pipeline:                   *)
(*   - handlers/async_handler.py : AsyncHandler (bounded queue, overflow   *)
(*     policy, batching consumer thread, flush, close)                     *)
(*   - handlers/file.py, handlers/rotating.py : FileHandler and            *)
(*     RotatingFileHandler (one mutex, size counter, rotation)             *)
(*   - logger.py : Logger._log, get_logger, initialize, shutdown           *)
(*   - logger.py : Logger.with_context and the entry built by _log         *)
(*     (context merge, promotion of the reserved keys)                     *)
(*   - logger.py : the public logging methods, timer and                   *)
(*     _capture_source_location                                            *)
(* Each subsystem has its own specification over the shared variables; a   *)
(* specification leaves the other subsystems' variables unchanged.         *)
(***************************************************************************)
EXTENDS Integers, Sequences, FiniteSets, TLC

(***************************************************************************)
(* Bounds of the model.                                                    *)
(***************************************************************************)
\* capacity of the async queue (queue.Queue(maxsize=queue_size))
QueueCap == 2
\* batch_size of the consumer
BatchSize == 2
\* number of records the producers emit in a run of the async handler
MaxRecords == 3

\* largest backup_count the rotating handler is configured with
MaxBackup == 3
\* number of records the writer threads emit to a file handler in a run
MaxWrites == 4

Producers == {"p1", "p2"}

\* threads that call emit on one FileHandler / RotatingFileHandler
Writers == {"w1", "w2"}

\* serialized sizes of a record (len(output.encode("utf-8"))), in bytes
Sizes == {2, 3}

\* configured max_bytes: rotation disabled (<= 0), a threshold one record reaches,
\* a threshold two small records reach
MaxBytesChoices == {-1, 0, 2, 4}

\* the line a previous run left in the file; new records are 1..MaxWrites
OldLine == MaxWrites + 1

\* number of initialize calls in a run of the registry
MaxInits == 2
\* number of Logger objects created in a run of the registry
MaxLoggers == 4

\* threads that call get_logger
Callers == {"g1", "g2"}

\* logger names; "svc" is the configured service_name
Names == {"svc", "api"}

ServiceNames == {"svc"}

\* number of log calls in a run of a Logger
MaxLogCalls == 4

\* LogLevel values (level.py)
Levels == {10, 20, 30, 40, 50}

\* a handler of the chain: a built-in handler that writes, a built-in handler whose
\* I/O fails inside emit, a Handler subclass whose emit raises
HandlerKinds == {"ok", "io_error", "raises"}

\* the handler lists a Logger is built with
Chains == {<<>>} \cup {<<a>> : a \in HandlerKinds}
              \cup {<<a, b>> : a \in HandlerKinds, b \in HandlerKinds}

\* number of with_context calls in a run of the context model
MaxDerived == 2

\* context keys of a run: one reserved key, one ordinary key
Keys == {"user_id", "status"}

Values == {"v1", "v2"}

\* the dicts over Keys: contexts and a log call's fields
Dicts == UNION {[S -> Values] : S \in SUBSET Keys}

\* the pairs of one with_context call: none or one
PairChoices == {d \in Dicts : Cardinality(DOMAIN d) <= 1}

\* config.default_context: service-wide keys only
Defaults == {d \in Dicts : "user_id" \notin DOMAIN d}

\* deepest application call stack below a logging call
MaxDepth == 2
\* number of logging calls and timer scopes in a run of the entry points
MaxEntryCalls == 2
\* latest reading of the monotonic clock, in ms
MaxClock == 1

\* emit calls made on the handler whose I/O fails
MaxEmits == 3

\* nested (mutable) values a Logger's context can hold
MaxNested == 1

\* the public logging methods
Methods == {"debug", "info", "warning", "error", "critical"}

\* the fields a timer scope is opened with
TimerFields == SUBSET {"table", "duration_ms"}

\* the queue's terminating sentinel (None in the source); records are 1..MaxRecords
Sentinel == 0

Policies == {"drop", "block", "fallback"}

VARIABLES
    \* ---- AsyncHandler ----
    on_full,        \* self._on_full
    queue,          \* self._queue, a FIFO of record ids and the sentinel
    stop,           \* self._stop
    dropped_count,  \* self._dropped_count
    batch,          \* _process_queue's local batch
    cpc,            \* the consumer thread's position in _process_queue
    fidx,           \* _flush_batch's position in the batch
    ppc,            \* each producer's position in emit
    prec,           \* the record each producer is emitting
    nextId,         \* the next record id to be emitted
    mpc,            \* the controlling thread's position in flush / close / shutdown
    mop,            \* the operation the controlling thread runs
    underlying,     \* the underlying handler: [clean, closed]
    delivered,      \* the records passed to underlying.emit, in call order
    late,           \* records passed to underlying.emit after underlying.close()
    accepted,       \* records that entered the queue
    attempts,       \* number of completed enqueue attempts (put / put_nowait)
    fullSeen,       \* records whose put_nowait raised queue.Full
    returned,       \* records whose emit call has returned
    flushTimedOut,  \* flush() left its polling loop at the deadline
    joinTimedOut,   \* close()'s join(timeout=5.0) returned with the thread alive
    busyShutdown,   \* a producer was inside emit while flush() or shutdown() ran
    \* ---- FileHandler / RotatingFileHandler ----
    kind,           \* "file" (FileHandler) or "rotating" (RotatingFileHandler)
    max_bytes,      \* self.max_bytes
    backup_count,   \* self.backup_count
    disk,           \* the directory: index 0 is P, index i is P.i
    fopen,          \* self._file is open (not None and not closed)
    current_size,   \* self._current_size
    lock,           \* the holder of self._lock, or "none"
    wpc,            \* each writer's position in emit
    wrec,           \* the record each writer is emitting
    recSize,        \* the serialized size of each record
    nextRec,        \* the next record id
    emitted,        \* the records whose emit has returned, in order of return
    rotations,      \* number of _do_rotate calls performed
    lastRotated,    \* the content P had when it was last rotated
    discarded,      \* a rotation has deleted a non-empty file
    closedEver,     \* close() has been called on the file handler
    lateEmits,      \* the records whose emit was called after close() returned
    \* ---- registry ----
    config,         \* the module's _config (NoConfig for None)
    loggers,        \* the module's _loggers, name -> Logger (NoLogger for no entry)
    nextLogger,     \* identity of the next Logger object created
    epoch,          \* number of initialize calls so far
    rpc,            \* the lifecycle thread's position in shutdown
    gpc,            \* each caller's position in get_logger
    gname,          \* the name each caller asked for
    ghandlers,      \* get_logger's local handlers
    gres,           \* what each caller's last get_logger call returned or raised
    gepoch,         \* the number of initialize calls made when the caller called
    created,        \* per name, the number of Loggers get_logger created
    everShutdown,   \* shutdown has been called
    hclosed,        \* the handler lists shutdown has flushed and closed
    hops,           \* per handler list, the calls shutdown made on its handlers
    href,           \* the handler lists of the registered Loggers when the last
                    \* shutdown began
    live,           \* the last lifecycle call was initialize
    glive,          \* live, when the caller called get_logger
    reinit,         \* initialize has been called twice with no shutdown between, and
                    \* none since
    \* ---- Logger ----
    config_level,   \* self._config.level, the threshold
    chain,          \* self._handlers, the kind of each handler
    calls,          \* the handler emit calls made, in order: [h, rec]
    outputs,        \* the records the handlers wrote, in order: [h, rec]
    raised,         \* the last log call raised into its caller
    logged,         \* the levels of the log calls made, in order
    lastEmits,      \* number of handler emit calls the last log call made
    \* ---- Logger contexts ----
    dicts,          \* the dict objects, by identity
    context,        \* per Logger (by identity), the identity of its _context dict
    derivation,     \* per Logger, the with_context call that built it
    lastEntry,      \* the entry the last log call built
    lastCall,       \* the last log call: [logger, fields]
    \* ---- entry points and source location ----
    threshold,      \* self._config.level
    handled,        \* the entries passed to the handler, in order
    ncalls,         \* number of logging calls and timer scopes so far
    clock,          \* time.perf_counter(), in ms
    tpc,            \* "scope" while the body of a with logger.timer(...) runs
    tstart,         \* timer's local start
    tdepth,         \* depth of the application stack that opened the scope
    tfields,        \* the scope's fields (their keys)
    twork,          \* the wrapped work raises
    scope,          \* the outcome of the last timer scope
    \* ---- I/O failures inside emit ----
    target,         \* the built-in handler whose emit is called
    ecaller,        \* who calls the file handler's emit in the current call
    epc,            \* position inside the file handler's emit
    efile,          \* self._file is open
    exc,            \* the exception in flight inside emit
    ecalls,         \* number of emit calls that have returned or raised
    ewritten,       \* number of records written to the file
    failures,       \* number of I/O operations that failed inside emit
    stderr,         \* number of lines printed to standard error
    propagated,     \* number of emit calls that raised into their caller
    \* ---- the mapping returned by Logger.context ----
    stored,         \* the Logger's self._context
    heap,           \* the content of the nested (mutable) values, by identity
    view,           \* the dict the last read of Logger.context returned
    before,         \* the stored context, nested values read, when view was taken
    sent            \* the context of the entry the last log call emitted

asyncVars == <<on_full, queue, stop, dropped_count, batch, cpc, fidx, ppc, prec,
               nextId, mpc, mop, underlying, delivered, late, accepted, attempts,
               fullSeen, returned, flushTimedOut, joinTimedOut, busyShutdown>>

fileVars == <<kind, max_bytes, backup_count, disk, fopen, current_size, lock, wpc,
              wrec, recSize, nextRec, emitted, rotations, lastRotated, discarded,
              closedEver, lateEmits>>

\* what the registry's steps record about the run
regHist == <<hops, href, live, glive, reinit>>

regVars == <<config, loggers, nextLogger, epoch, rpc, gpc, gname, ghandlers, gres,
             gepoch, created, everShutdown, hclosed, regHist>>

logVars == <<config_level, chain, calls, outputs, raised, logged, lastEmits>>

ctxVars == <<dicts, context, derivation, lastEntry, lastCall>>

srcVars == <<threshold, handled, ncalls, clock, tpc, tstart, tdepth, tfields, twork,
             scope>>

failVars == <<target, ecaller, epc, efile, exc, ecalls, ewritten, failures, stderr,
              propagated>>

viewVars == <<stored, heap, view, before, sent>>

vars == <<asyncVars, fileVars, regVars, logVars, ctxVars, srcVars, failVars, viewVars>>

\* what the steps of one subsystem leave alone
nonAsyncVars == <<fileVars, regVars, logVars, ctxVars, srcVars, failVars, viewVars>>

nonFileVars == <<asyncVars, regVars, logVars, ctxVars, srcVars, failVars, viewVars>>

nonRegVars == <<asyncVars, fileVars, logVars, ctxVars, srcVars, failVars, viewVars>>

nonLogVars == <<asyncVars, fileVars, regVars, ctxVars, srcVars, failVars, viewVars>>

nonCtxVars == <<asyncVars, fileVars, regVars, logVars, srcVars, failVars, viewVars>>

nonSrcVars == <<asyncVars, fileVars, regVars, logVars, ctxVars, failVars, viewVars>>

nonFailVars == <<asyncVars, fileVars, regVars, logVars, ctxVars, srcVars, viewVars>>

nonViewVars == <<asyncVars, fileVars, regVars, logVars, ctxVars, srcVars, failVars>>

(***************************************************************************)
(* AsyncHandler                                                            *)
(***************************************************************************)
Range(s) == {s[i] : i \in 1..Len(s)}

\* QueueFull with a fault: a queue without a maximum size is never full
QueueFullNever == FALSE

\* queue.Queue.full()
QueueFull == Len(queue) >= QueueCap

\* underlying_handler.emit(entry), called by the consumer or by a Fallback producer
UnderlyingEmit(r) ==
    /\ delivered' = Append(delivered, r)
    /\ late' = IF underlying.closed THEN late \cup {r} ELSE late
    /\ underlying' = [underlying EXCEPT !.clean = FALSE]

\* AsyncHandler.__init__: an empty queue, the consumer thread started
AsyncInit ==
    /\ on_full \in Policies
    /\ queue = <<>>
    /\ stop = FALSE
    /\ dropped_count = 0
    /\ batch = <<>>
    /\ cpc = "loop"
    /\ fidx = 1
    /\ ppc = [p \in Producers |-> "idle"]
    /\ prec = [p \in Producers |-> 0]
    /\ nextId = 1
    /\ mpc = "run"
    /\ mop = "none"
    /\ underlying = [clean |-> TRUE, closed |-> FALSE]
    /\ delivered = <<>>
    /\ late = {}
    /\ accepted = {}
    /\ attempts = 0
    /\ fullSeen = {}
    /\ returned = {}
    /\ flushTimedOut = FALSE
    /\ joinTimedOut = FALSE
    /\ busyShutdown = FALSE

ProducersIdle == \A p \in Producers : ppc[p] = "idle"

\* a producer inside emit while flush() or shutdown() runs is a concurrent producer
NoteProducer ==
    busyShutdown' = (busyShutdown \/ (mop \in {"flush", "shutdown"}
                                        /\ mpc \notin {"run", "closed"}))

\* emit, line 123: the entry test of self._stop
EmitCall(p) ==
    /\ ppc[p] = "idle"
    /\ nextId <= MaxRecords
    /\ nextId' = nextId + 1
    /\ prec' = [prec EXCEPT ![p] = nextId]
    /\ IF stop
       THEN /\ returned' = returned \cup {nextId}
            /\ ppc' = ppc
       ELSE /\ ppc' = [ppc EXCEPT ![p] = "put"]
            /\ returned' = returned
    /\ NoteProducer
    /\ UNCHANGED <<on_full, queue, stop, dropped_count, batch, cpc, fidx, mpc, mop,
                   underlying, delivered, late, accepted, attempts, fullSeen,
                   flushTimedOut, joinTimedOut>>
    /\ UNCHANGED nonAsyncVars

\* whether emit's enqueue call blocks until there is room (queue.put) or not (put_nowait)
PutBlocks == on_full = "block"

\* emit, lines 127-148: queue.put (Block) or queue.put_nowait (Drop, Fallback)
EmitPut(p) ==
    /\ ppc[p] = "put"
    /\ PutBlocks => ~QueueFull
    /\ attempts' = attempts + 1
    /\ IF ~QueueFull
       THEN /\ queue' = Append(queue, prec[p])
            /\ accepted' = accepted \cup {prec[p]}
            /\ returned' = returned \cup {prec[p]}
            /\ ppc' = [ppc EXCEPT ![p] = "idle"]
            /\ fullSeen' = fullSeen
       ELSE /\ fullSeen' = fullSeen \cup {prec[p]}
            /\ ppc' = [ppc EXCEPT ![p] = "full"]
            /\ UNCHANGED <<queue, accepted, returned>>
    /\ NoteProducer
    /\ UNCHANGED <<on_full, stop, dropped_count, batch, cpc, fidx, prec, nextId, mpc,
                   mop, underlying, delivered, late, flushTimedOut, joinTimedOut>>
    /\ UNCHANGED nonAsyncVars

\* CountDrop with a fault: an increment overwrites the ones made before it
CountDropOverwrites(n) == 1

\* CountDrop with a fault: the increment is lost
CountDropLost(n) == n

\* emit, lines 137 and 148: self._dropped_count += 1
CountDrop(n) == n + 1

\* emit, lines 134-137 and 146-148: except queue.Full: with self._lock: count the drop
EmitFull(p) ==
    /\ ppc[p] = "full"
    /\ dropped_count' = CountDrop(dropped_count)
    /\ IF on_full = "fallback"
       THEN /\ ppc' = [ppc EXCEPT ![p] = "fallback"]
            /\ returned' = returned
       ELSE /\ ppc' = [ppc EXCEPT ![p] = "idle"]
            /\ returned' = returned \cup {prec[p]}
    /\ NoteProducer
    /\ UNCHANGED <<on_full, queue, stop, batch, cpc, fidx, prec, nextId, mpc, mop,
                   underlying, delivered, late, accepted, attempts, fullSeen,
                   flushTimedOut, joinTimedOut>>
    /\ UNCHANGED nonAsyncVars

\* FallbackWrite with a fault: the record is discarded as under Drop
FallbackDiscard(r) == UNCHANGED <<delivered, late, underlying>>

\* emit, line 139: self._underlying_handler.emit(entry) on the calling thread
FallbackWrite(r) == UnderlyingEmit(r)

\* emit, lines 138-141: the synchronous write of the Fallback policy
EmitFallback(p) ==
    /\ ppc[p] = "fallback"
    /\ FallbackWrite(prec[p])
    /\ returned' = returned \cup {prec[p]}
    /\ ppc' = [ppc EXCEPT ![p] = "idle"]
    /\ NoteProducer
    /\ UNCHANGED <<on_full, queue, stop, dropped_count, batch, cpc, fidx, prec, nextId,
                   mpc, mop, accepted, attempts, fullSeen, flushTimedOut, joinTimedOut>>
    /\ UNCHANGED nonAsyncVars

\* ConsLoop with a fault: the loop does not test the stop flag (while True)
ConsLoopForever ==
    /\ cpc = "loop"
    /\ cpc' = "get"
    /\ UNCHANGED <<on_full, queue, stop, dropped_count, batch, fidx, ppc, prec, nextId,
                   mpc, mop, underlying, delivered, late, accepted, attempts, fullSeen,
                   returned, flushTimedOut, joinTimedOut, busyShutdown>>
    /\ UNCHANGED nonAsyncVars

\* _process_queue, line 76: while not self._stop
ConsLoop ==
    /\ cpc = "loop"
    /\ cpc' = IF stop THEN "done" ELSE "get"
    /\ UNCHANGED <<on_full, queue, stop, dropped_count, batch, fidx, ppc, prec, nextId,
                   mpc, mop, underlying, delivered, late, accepted, attempts, fullSeen,
                   returned, flushTimedOut, joinTimedOut, busyShutdown>>
    /\ UNCHANGED nonAsyncVars

\* ConsGet with a fault: the consumer takes the item enqueued last
ConsGetNewest ==
    /\ cpc = "get"
    /\ IF queue = <<>>
       THEN /\ cpc' = "check"
            /\ UNCHANGED <<queue, batch, fidx>>
       ELSE /\ queue' = SubSeq(queue, 1, Len(queue) - 1)
            /\ IF queue[Len(queue)] = Sentinel
               THEN /\ cpc' = IF batch # <<>> THEN "final" ELSE "done"
                    /\ fidx' = 1
                    /\ batch' = batch
               ELSE /\ batch' = Append(batch, queue[Len(queue)])
                    /\ cpc' = "check"
                    /\ fidx' = fidx
    /\ UNCHANGED <<on_full, stop, dropped_count, ppc, prec, nextId, mpc, mop,
                   underlying, delivered, late, accepted, attempts, fullSeen, returned,
                   flushTimedOut, joinTimedOut, busyShutdown>>
    /\ UNCHANGED nonAsyncVars

\* _process_queue, lines 83-95: queue.get(timeout); the sentinel ends the loop after
\* a flush of the remaining batch, a record joins the batch, queue.Empty passes
ConsGet ==
    /\ cpc = "get"
    /\ IF queue = <<>>
       THEN /\ cpc' = "check"
            /\ UNCHANGED <<queue, batch, fidx>>
       ELSE /\ queue' = Tail(queue)
            /\ IF Head(queue) = Sentinel
               THEN /\ cpc' = IF batch # <<>> THEN "final" ELSE "done"
                    /\ fidx' = 1
                    /\ batch' = batch
               ELSE /\ batch' = Append(batch, Head(queue))
                    /\ cpc' = "check"
                    /\ fidx' = fidx
    /\ UNCHANGED <<on_full, stop, dropped_count, ppc, prec, nextId, mpc, mop,
                   underlying, delivered, late, accepted, attempts, fullSeen, returned,
                   flushTimedOut, joinTimedOut, busyShutdown>>
    /\ UNCHANGED nonAsyncVars

\* ShouldFlush with a fault: a full batch is not flushed until the timeout
ShouldFlushOnTimeoutOnly(elapsed) == batch # <<>> /\ elapsed

\* _process_queue, lines 98-101: should_flush; elapsed is the outcome of
\* time.monotonic() - last_flush_time >= self._batch_timeout
ShouldFlush(elapsed) ==
    Len(batch) >= BatchSize \/ (batch # <<>> /\ elapsed)

\* _process_queue, lines 98-106: the flush decision
ConsCheck ==
    /\ cpc = "check"
    /\ \E elapsed \in BOOLEAN :
         IF ShouldFlush(elapsed) /\ batch # <<>>
         THEN cpc' = "flush" /\ fidx' = 1
         ELSE cpc' = "loop" /\ fidx' = fidx
    /\ UNCHANGED <<on_full, queue, stop, dropped_count, batch, ppc, prec, nextId, mpc,
                   mop, underlying, delivered, late, accepted, attempts, fullSeen,
                   returned, flushTimedOut, joinTimedOut, busyShutdown>>
    /\ UNCHANGED nonAsyncVars

\* _flush_batch, lines 113-119, one underlying emit per step (lines 88 and 104-106
\* are its two callers: before the exit at the sentinel, and in the loop)
ConsFlush ==
    /\ cpc \in {"flush", "final"}
    /\ fidx <= Len(batch)
    /\ UnderlyingEmit(batch[fidx])
    /\ IF fidx < Len(batch)
       THEN /\ fidx' = fidx + 1
            /\ UNCHANGED <<batch, cpc>>
       ELSE /\ fidx' = 1
            /\ batch' = <<>>
            /\ cpc' = IF cpc = "final" THEN "done" ELSE "loop"
    /\ UNCHANGED <<on_full, queue, stop, dropped_count, ppc, prec, nextId, mpc, mop,
                   accepted, attempts, fullSeen, returned, flushTimedOut, joinTimedOut,
                   busyShutdown>>
    /\ UNCHANGED nonAsyncVars

\* the controlling thread calls flush(), close() or logger.shutdown() (flush, then close)
MainCall(o) ==
    /\ mpc = "run"
    /\ mop' = o
    /\ mpc' = IF o = "close" THEN "close_stop" ELSE "flush_wait"
    /\ flushTimedOut' = FALSE
    /\ busyShutdown' = (o \in {"flush", "shutdown"} /\ ~ProducersIdle)
    /\ UNCHANGED <<on_full, queue, stop, dropped_count, batch, cpc, fidx, ppc, prec,
                   nextId, underlying, delivered, late, accepted, attempts, fullSeen,
                   returned, joinTimedOut>>
    /\ UNCHANGED nonAsyncVars

\* flush, lines 157-159: poll until the queue is empty or the deadline has passed
FlushWait ==
    /\ mpc = "flush_wait"
    /\ mpc' = "flush_under"
    /\ \/ queue = <<>> /\ flushTimedOut' = flushTimedOut
       \/ queue # <<>> /\ flushTimedOut' = TRUE
    /\ UNCHANGED <<on_full, queue, stop, dropped_count, batch, cpc, fidx, ppc, prec,
                   nextId, mop, underlying, delivered, late, accepted, attempts,
                   fullSeen, returned, joinTimedOut, busyShutdown>>
    /\ UNCHANGED nonAsyncVars

\* flush, line 164: self._underlying_handler.flush(); shutdown goes on to close()
FlushUnderlying ==
    /\ mpc = "flush_under"
    /\ underlying' = [underlying EXCEPT !.clean = TRUE]
    /\ mpc' = IF mop = "shutdown" THEN "close_stop" ELSE "run"
    /\ UNCHANGED <<on_full, queue, stop, dropped_count, batch, cpc, fidx, ppc, prec,
                   nextId, mop, delivered, late, accepted, attempts, fullSeen, returned,
                   flushTimedOut, joinTimedOut, busyShutdown>>
    /\ UNCHANGED nonAsyncVars

\* close, line 169: self._stop = True
CloseSetStop ==
    /\ mpc = "close_stop"
    /\ stop' = TRUE
    /\ mpc' = "close_sentinel"
    /\ UNCHANGED <<on_full, queue, dropped_count, batch, cpc, fidx, ppc, prec, nextId,
                   mop, underlying, delivered, late, accepted, attempts, fullSeen,
                   returned, flushTimedOut, joinTimedOut, busyShutdown>>
    /\ UNCHANGED nonAsyncVars

\* close, lines 171-174: put_nowait(None), queue.Full passed over
ClosePutSentinel ==
    /\ mpc = "close_sentinel"
    /\ queue' = IF QueueFull THEN queue ELSE Append(queue, Sentinel)
    /\ mpc' = "close_join"
    /\ UNCHANGED <<on_full, stop, dropped_count, batch, cpc, fidx, ppc, prec, nextId,
                   mop, underlying, delivered, late, accepted, attempts, fullSeen,
                   returned, flushTimedOut, joinTimedOut, busyShutdown>>
    /\ UNCHANGED nonAsyncVars

\* CloseJoin with a fault: join() without a timeout, which returns only when the
\* consumer thread has ended
CloseJoinNoTimeout ==
    /\ mpc = "close_join"
    /\ cpc = "done"
    /\ mpc' = "close_flush"
    /\ joinTimedOut' = FALSE
    /\ UNCHANGED <<on_full, queue, stop, dropped_count, batch, cpc, fidx, ppc, prec,
                   nextId, mop, underlying, delivered, late, accepted, attempts,
                   fullSeen, returned, flushTimedOut, busyShutdown>>
    /\ UNCHANGED nonAsyncVars

\* close, lines 177-180: self._thread.join(timeout=5.0)
CloseJoin ==
    /\ mpc = "close_join"
    /\ mpc' = "close_flush"
    /\ joinTimedOut' = (cpc # "done")
    /\ UNCHANGED <<on_full, queue, stop, dropped_count, batch, cpc, fidx, ppc, prec,
                   nextId, mop, underlying, delivered, late, accepted, attempts,
                   fullSeen, returned, flushTimedOut, busyShutdown>>
    /\ UNCHANGED nonAsyncVars

\* close, line 183: self._underlying_handler.flush()
CloseFlushUnderlying ==
    /\ mpc = "close_flush"
    /\ underlying' = [underlying EXCEPT !.clean = TRUE]
    /\ mpc' = "close_close"
    /\ UNCHANGED <<on_full, queue, stop, dropped_count, batch, cpc, fidx, ppc, prec,
                   nextId, mop, delivered, late, accepted, attempts, fullSeen, returned,
                   flushTimedOut, joinTimedOut, busyShutdown>>
    /\ UNCHANGED nonAsyncVars

\* close, line 184: self._underlying_handler.close()
CloseCloseUnderlying ==
    /\ mpc = "close_close"
    /\ underlying' = [underlying EXCEPT !.closed = TRUE]
    /\ mpc' = "closed"
    /\ UNCHANGED <<on_full, queue, stop, dropped_count, batch, cpc, fidx, ppc, prec,
                   nextId, mop, delivered, late, accepted, attempts, fullSeen, returned,
                   flushTimedOut, joinTimedOut, busyShutdown>>
    /\ UNCHANGED nonAsyncVars

Producer(p) == EmitCall(p) \/ EmitPut(p) \/ EmitFull(p) \/ EmitFallback(p)

Consumer == ConsLoop \/ ConsGet \/ ConsCheck \/ ConsFlush

Main ==
    \/ \E o \in {"flush", "close", "shutdown"} : MainCall(o)
    \/ FlushWait \/ FlushUnderlying
    \/ CloseSetStop \/ ClosePutSentinel \/ CloseJoin
    \/ CloseFlushUnderlying \/ CloseCloseUnderlying

(***************************************************************************)
(* FileHandler and RotatingFileHandler                                     *)
(***************************************************************************)
Absent == [exists |-> FALSE, data |-> <<>>, gen |-> 0]

NewFile == [exists |-> TRUE, data |-> <<>>, gen |-> 0]

\* indexes of the files the model watches: P, P.1 .. P.(MaxBackup + 1)
Indexes == 0..(MaxBackup + 1)

\* what a previous run may have left at P: nothing, an empty file, one line
Preexisting == {Absent, NewFile, [NewFile EXCEPT !.data = <<OldLine, OldLine>>]}

\* OpenSize with a fault: the counter is not seeded from the existing file
OpenSizeZero(pre) == 0

\* _open, lines 52-55: the size of P if it exists, else 0
OpenSize(pre) == IF pre.exists THEN Len(pre.data) ELSE 0

\* FileHandler.__init__ / RotatingFileHandler.__init__ and _open: the size counter is
\* seeded from the size of P, and open(P, "a") creates P
FileInit ==
    /\ kind \in {"file", "rotating"}
    /\ IF kind = "rotating"
       THEN max_bytes \in MaxBytesChoices /\ backup_count \in 0..MaxBackup
       ELSE max_bytes = 0 /\ backup_count = 0
    /\ \E pre \in Preexisting :
         /\ disk = [i \in Indexes |->
                      IF i = 0 THEN [pre EXCEPT !.exists = TRUE] ELSE Absent]
         /\ current_size = IF kind = "rotating" THEN OpenSize(pre) ELSE 0
    /\ fopen = TRUE
    /\ lock = "none"
    /\ wpc = [w \in Writers |-> "idle"]
    /\ wrec = [w \in Writers |-> 0]
    /\ recSize = [r \in {OldLine} |-> 2]
    /\ nextRec = 1
    /\ emitted = <<>>
    /\ rotations = 0
    /\ lastRotated = <<>>
    /\ discarded = FALSE
    /\ closedEver = FALSE
    /\ lateEmits = {}

\* ShouldRotate with a fault: the size of the record to write is left out
ShouldRotateWhenOver(message_size) == max_bytes > 0 /\ current_size > max_bytes

\* ShouldRotate with a fault: the threshold is compared whatever its sign
ShouldRotateUnguarded(message_size) == (current_size + message_size) > max_bytes

\* _should_rotate, line 61
ShouldRotate(message_size) ==
    max_bytes > 0 /\ (current_size + message_size) > max_bytes

\* ShiftFrom with a fault: the loop starts one index too high
ShiftFromCount == backup_count

\* _do_rotate, line 78: the first (highest) index of the backup loop
ShiftFrom == backup_count - 1

\* ShiftBackups with a fault: the loop runs lowest index first
RECURSIVE ShiftBackupsLowestFirst(_, _)
ShiftBackupsLowestFirst(d, i) ==
    IF i < 1 THEN d
    ELSE LET e == ShiftBackupsLowestFirst(d, i - 1)
         IN IF e[i].exists
            THEN [e EXCEPT ![i + 1] = e[i], ![i] = Absent]
            ELSE e

\* _do_rotate, lines 78-84: for i in range(backup_count - 1, 0, -1):
\* if P.i exists, unlink P.(i+1) if it exists and rename P.i to P.(i+1)
RECURSIVE ShiftBackups(_, _)
ShiftBackups(d, i) ==
    IF i < 1 THEN d
    ELSE ShiftBackups(IF d[i].exists
                      THEN [d EXCEPT ![i + 1] = d[i], ![i] = Absent]
                      ELSE d,
                      i - 1)

\* MovePrimary with a fault: an existing P.1 is not unlinked first, so P is not moved
MovePrimaryUnlessBackup(d) ==
    IF d[0].exists /\ ~d[1].exists
    THEN [d EXCEPT ![1] = [d[0] EXCEPT !.gen = rotations + 1], ![0] = Absent]
    ELSE d

\* _do_rotate, lines 87-91: if P exists, unlink P.1 if it exists and rename P to P.1
MovePrimary(d) ==
    IF d[0].exists
    THEN [d EXCEPT ![1] = [d[0] EXCEPT !.gen = rotations + 1], ![0] = Absent]
    ELSE d

\* _do_rotate, lines 63-95: the directory after a rotation (P reopened fresh)
Rotated(d) == [MovePrimary(ShiftBackups(d, ShiftFrom)) EXCEPT ![0] = NewFile]

\* the bytes of all files, as a bag of (record, count)
BytesOf(d, r) ==
    LET n[i \in Indexes] == Cardinality({k \in 1..Len(d[i].data) : d[i].data[k] = r})
        sum[i \in Indexes] == n[i] + (IF i = 0 THEN 0 ELSE sum[i - 1])
    IN sum[MaxBackup + 1]

\* a rotation that loses a record's bytes has discarded content
Discards(d) ==
    \E r \in DOMAIN recSize : BytesOf(Rotated(d), r) < BytesOf(d, r)

\* emit, lines 99-100 (rotating) and 43 (file): format the entry and take its size
WEmitCall(w) ==
    /\ wpc[w] = "idle"
    /\ nextRec <= MaxWrites
    /\ \E sz \in Sizes : recSize' = (nextRec :> sz) @@ recSize
    /\ wrec' = [wrec EXCEPT ![w] = nextRec]
    /\ nextRec' = nextRec + 1
    /\ wpc' = [wpc EXCEPT ![w] = "lock"]
    /\ lateEmits' = IF closedEver THEN lateEmits \cup {nextRec} ELSE lateEmits
    /\ UNCHANGED <<kind, max_bytes, backup_count, disk, fopen, current_size, lock,
                   emitted, rotations, lastRotated, discarded, closedEver>>
    /\ UNCHANGED nonFileVars

\* LockFree with a fault: the writes are not serialized
LockIgnored == TRUE

\* with self._lock: the mutex is free
LockFree == lock = "none"

\* emit, lines 102-105 (rotating) and 44 (file): take the mutex; the rotating handler
\* rotates first when the record would pass the threshold
WAcquire(w) ==
    /\ wpc[w] = "lock"
    /\ LockFree
    /\ lock' = w
    /\ wpc' = [wpc EXCEPT ![w] = "write"]
    /\ IF kind = "rotating" /\ ShouldRotate(recSize[wrec[w]])
       THEN /\ disk' = Rotated(disk)
            /\ lastRotated' = disk[0].data
            /\ discarded' = (discarded \/ Discards(disk))
            /\ rotations' = rotations + 1
            /\ current_size' = 0
            /\ fopen' = TRUE
       ELSE UNCHANGED <<disk, lastRotated, discarded, rotations, current_size, fopen>>
    /\ UNCHANGED <<kind, max_bytes, backup_count, wrec, recSize, nextRec, emitted,
                   closedEver, lateEmits>>
    /\ UNCHANGED nonFileVars

\* emit, lines 108-109 (45-46): self._file.write(output) starts: the first byte of
\* the line reaches the file, if the file is open
WWriteHead(w) ==
    /\ wpc[w] = "write"
    /\ wpc' = [wpc EXCEPT ![w] = "flush"]
    /\ disk' = IF fopen
               THEN [disk EXCEPT ![0].data = Append(@, wrec[w])]
               ELSE disk
    /\ UNCHANGED <<kind, max_bytes, backup_count, fopen, current_size, lock, wrec,
                   recSize, nextRec, emitted, rotations, lastRotated, discarded,
                   closedEver, lateEmits>>
    /\ UNCHANGED nonFileVars

\* the remaining bytes of a line
Rest(r) == [k \in 1..(recSize[r] - 1) |-> r]

\* emit, lines 109-111 (46-47): the rest of the line is written and flushed, the
\* size counter advanced, the mutex released
WWriteRest(w) ==
    /\ wpc[w] = "flush"
    /\ wpc' = [wpc EXCEPT ![w] = "idle"]
    /\ IF fopen
       THEN /\ disk' = [disk EXCEPT ![0].data = @ \o Rest(wrec[w])]
            /\ current_size' = IF kind = "rotating"
                               THEN current_size + recSize[wrec[w]]
                               ELSE current_size
       ELSE UNCHANGED <<disk, current_size>>
    /\ lock' = IF lock = w THEN "none" ELSE lock
    /\ emitted' = Append(emitted, wrec[w])
    /\ UNCHANGED <<kind, max_bytes, backup_count, fopen, wrec, recSize, nextRec,
                   rotations, lastRotated, discarded, closedEver, lateEmits>>
    /\ UNCHANGED nonFileVars

\* close, lines 126-134 (61-69): under the mutex, flush and close the file
FileClose ==
    /\ LockFree
    /\ ~closedEver
    /\ fopen' = FALSE
    /\ closedEver' = TRUE
    /\ UNCHANGED <<kind, max_bytes, backup_count, disk, current_size, lock, wpc, wrec,
                   recSize, nextRec, emitted, rotations, lastRotated, discarded,
                   lateEmits>>
    /\ UNCHANGED nonFileVars

Writer(w) == WEmitCall(w) \/ WAcquire(w) \/ WWriteHead(w) \/ WWriteRest(w)

(***************************************************************************)
(* The registry: initialize, get_logger, shutdown (logger.py)              *)
(***************************************************************************)
\* _config is None
NoConfig == [id |-> 0, service_name |-> "none"]

\* no entry under a name in _loggers
NoLogger == [id |-> 0, cfg |-> 0, handlers |-> 0]

NoResult == [status |-> "none", logger |-> NoLogger]

Present(n) == loggers[n] # NoLogger

\* the handler lists initialize builds, one per call
HandlerLists == 1..MaxInits

\* module state at import: _config = None, _loggers = {}
RegistryInit ==
    /\ config = NoConfig
    /\ loggers = [n \in Names |-> NoLogger]
    /\ nextLogger = 1
    /\ epoch = 0
    /\ rpc = "idle"
    /\ gpc = [t \in Callers |-> "idle"]
    /\ gname = [t \in Callers |-> "svc"]
    /\ ghandlers = [t \in Callers |-> 0]
    /\ gres = [t \in Callers |-> NoResult]
    /\ gepoch = [t \in Callers |-> 0]
    /\ created = [n \in Names |-> 0]
    /\ everShutdown = FALSE
    /\ hclosed = {}
    /\ hops = [h \in HandlerLists |-> <<>>]
    /\ href = {}
    /\ live = FALSE
    /\ glive = [t \in Callers |-> FALSE]
    /\ reinit = FALSE

\* initialize, lines 244-281: _config = config, the handlers built, the root logger
\* stored under config.service_name (the other entries of _loggers are left)
Initialize(s) ==
    /\ rpc = "idle"
    /\ epoch < MaxInits
    /\ epoch' = epoch + 1
    /\ config' = [id |-> epoch + 1, service_name |-> s]
    /\ loggers' = [loggers EXCEPT ![s] = [id |-> nextLogger, cfg |-> epoch + 1,
                                          handlers |-> epoch + 1]]
    /\ nextLogger' = nextLogger + 1
    /\ live' = TRUE
    /\ reinit' = (reinit \/ live)
    /\ UNCHANGED <<gepoch, rpc, gpc, gname, ghandlers, gres, created, everShutdown,
                   hclosed, hops, href, glive>>
    /\ UNCHANGED nonRegVars

\* callers between the membership test and the store of get_logger
Creating == {t \in Callers : gpc[t] \in {"check", "root", "store"}}

\* callers inside get_logger
InCall == {t \in Callers : gpc[t] \notin {"idle", "done"}}

\* get_logger, lines 292-293: if _config is None: raise RuntimeError
GCall(t, n) ==
    /\ gpc[t] \in {"idle", "done"}
    /\ nextLogger + Cardinality(Creating) <= MaxLoggers
    /\ gname' = [gname EXCEPT ![t] = n]
    /\ gepoch' = [gepoch EXCEPT ![t] = epoch]
    /\ IF config = NoConfig
       THEN /\ gres' = [gres EXCEPT ![t] = [status |-> "NotInitialized",
                                            logger |-> NoLogger]]
            /\ gpc' = [gpc EXCEPT ![t] = "done"]
       ELSE /\ gres' = [gres EXCEPT ![t] = NoResult]
            /\ gpc' = [gpc EXCEPT ![t] = "check"]
    /\ glive' = [glive EXCEPT ![t] = live]
    /\ UNCHANGED <<config, loggers, nextLogger, epoch, rpc, ghandlers, created,
                   everShutdown, hclosed, hops, href, live, reinit>>
    /\ UNCHANGED nonRegVars

\* GCheck with a fault: the cached entry is ignored, every call creates a Logger
GCheckAlwaysCreates(t) ==
    /\ gpc[t] = "check"
    /\ gpc' = [gpc EXCEPT ![t] = "root"]
    /\ UNCHANGED <<gepoch, config, loggers, nextLogger, epoch, rpc, gname, ghandlers, gres,
                   created, everShutdown, hclosed, regHist>>
    /\ UNCHANGED nonRegVars

\* get_logger, line 295: if name not in _loggers
GCheck(t) ==
    /\ gpc[t] = "check"
    /\ gpc' = [gpc EXCEPT ![t] = IF Present(gname[t]) THEN "ret" ELSE "root"]
    /\ UNCHANGED <<gepoch, config, loggers, nextLogger, epoch, rpc, gname, ghandlers, gres,
                   created, everShutdown, hclosed,
                   regHist>>
    /\ UNCHANGED nonRegVars

\* get_logger, lines 297-298: the root logger's handlers, [] without a root logger;
\* _config.service_name fails when _config has become None
GRoot(t) ==
    /\ gpc[t] = "root"
    /\ IF config = NoConfig
       THEN /\ gres' = [gres EXCEPT ![t] = [status |-> "AttributeError",
                                            logger |-> NoLogger]]
            /\ gpc' = [gpc EXCEPT ![t] = "done"]
            /\ ghandlers' = ghandlers
       ELSE /\ ghandlers' = [ghandlers EXCEPT
                               ![t] = loggers[config.service_name].handlers]
            /\ gpc' = [gpc EXCEPT ![t] = "store"]
            /\ gres' = gres
    /\ UNCHANGED <<gepoch, config, loggers, nextLogger, epoch, rpc, gname, created,
                   everShutdown, hclosed,
                   regHist>>
    /\ UNCHANGED nonRegVars

\* get_logger, line 299: _loggers[name] = Logger(name, _config, None, handlers)
GStore(t) ==
    /\ gpc[t] = "store"
    /\ loggers' = [loggers EXCEPT ![gname[t]] = [id |-> nextLogger,
                                                 cfg |-> config.id,
                                                 handlers |-> ghandlers[t]]]
    /\ nextLogger' = nextLogger + 1
    /\ created' = [created EXCEPT ![gname[t]] = @ + 1]
    /\ gpc' = [gpc EXCEPT ![t] = "ret"]
    /\ UNCHANGED <<gepoch, config, epoch, rpc, gname, ghandlers, gres, everShutdown, hclosed,
                   regHist>>
    /\ UNCHANGED nonRegVars

\* get_logger, line 301: return _loggers[name]
GReturn(t) ==
    /\ gpc[t] = "ret"
    /\ gres' = [gres EXCEPT ![t] = IF Present(gname[t])
                                   THEN [status |-> "logger",
                                         logger |-> loggers[gname[t]]]
                                   ELSE [status |-> "KeyError",
                                         logger |-> NoLogger]]
    /\ gpc' = [gpc EXCEPT ![t] = "done"]
    /\ UNCHANGED <<gepoch, config, loggers, nextLogger, epoch, rpc, gname, ghandlers,
                   created, everShutdown, hclosed,
                   regHist>>
    /\ UNCHANGED nonRegVars

\* the handler lists of the registered Loggers (0 is the empty list)
Referenced == {loggers[n].handlers : n \in Names} \ {0}

\* HandlerCalls with a fault: close is called before flush
HandlerCallsCloseFirst == <<"close", "flush">>

\* shutdown, lines 310-313: handler.flush(), then handler.close()
HandlerCalls == <<"flush", "close">>

\* shutdown, lines 308-313: the calls made on the handlers of list h while the loop
\* goes over the Loggers registered under the names ns: a list that several Loggers
\* share is gone over once per Logger
RECURSIVE ShutdownCalls(_, _)
ShutdownCalls(h, ns) ==
    IF ns = {} THEN <<>>
    ELSE LET n == CHOOSE x \in ns : TRUE
         IN (IF loggers[n].handlers = h THEN HandlerCalls ELSE <<>>)
                \o ShutdownCalls(h, ns \ {n})

\* shutdown, lines 308-313: flush and close the handlers of every registered logger
ShutdownHandlers ==
    /\ rpc = "idle"
    /\ rpc' = "clear"
    /\ everShutdown' = TRUE
    /\ hclosed' = hclosed \cup Referenced
    /\ hops' = [h \in HandlerLists |-> hops[h] \o ShutdownCalls(h, Names)]
    /\ href' = Referenced
    /\ live' = FALSE
    /\ reinit' = FALSE
    /\ UNCHANGED <<gepoch, config, loggers, nextLogger, epoch, gpc, gname, ghandlers, gres,
                   created, glive>>
    /\ UNCHANGED nonRegVars

\* ShutdownClear with a fault: the registry is left as it is
ShutdownClearKept ==
    /\ rpc = "clear"
    /\ rpc' = "config"
    /\ UNCHANGED <<gepoch, config, loggers, nextLogger, epoch, gpc, gname, ghandlers, gres,
                   created, everShutdown, hclosed, regHist>>
    /\ UNCHANGED nonRegVars

\* shutdown, line 315: _loggers.clear()
ShutdownClear ==
    /\ rpc = "clear"
    /\ rpc' = "config"
    /\ loggers' = [n \in Names |-> NoLogger]
    /\ UNCHANGED <<gepoch, config, nextLogger, epoch, gpc, gname, ghandlers, gres, created,
                   everShutdown, hclosed,
                   regHist>>
    /\ UNCHANGED nonRegVars

\* ShutdownConfig with a fault: _config is left set
ShutdownConfigKept ==
    /\ rpc = "config"
    /\ rpc' = "idle"
    /\ UNCHANGED <<gepoch, config, loggers, nextLogger, epoch, gpc, gname, ghandlers, gres,
                   created, everShutdown, hclosed, regHist>>
    /\ UNCHANGED nonRegVars

\* shutdown, line 316: _config = None
ShutdownConfig ==
    /\ rpc = "config"
    /\ rpc' = "idle"
    /\ config' = NoConfig
    /\ UNCHANGED <<gepoch, loggers, nextLogger, epoch, gpc, gname, ghandlers, gres, created,
                   everShutdown, hclosed,
                   regHist>>
    /\ UNCHANGED nonRegVars

GetLogger(t) == (\E n \in Names : GCall(t, n)) \/ GCheck(t) \/ GRoot(t) \/ GStore(t)
                    \/ GReturn(t)

Shutdown == ShutdownHandlers \/ ShutdownClear \/ ShutdownConfig

(***************************************************************************)
(* Logger._log: level filter and handler fan-out (logger.py, level.py)     *)
(***************************************************************************)
\* LogLevel, level.py lines 12-16
LevelName(v) ==
    CASE v = 10 -> "DEBUG"
      [] v = 20 -> "INFO"
      [] v = 30 -> "WARNING"
      [] v = 40 -> "ERROR"
      [] v = 50 -> "CRITICAL"

LevelValue(n) == CHOOSE v \in Levels : LevelName(v) = n

\* a Logger with its configuration's level and its handler list
LoggerInit ==
    /\ config_level \in Levels
    /\ chain \in Chains
    /\ calls = <<>>
    /\ outputs = <<>>
    /\ raised = FALSE
    /\ logged = <<>>
    /\ lastEmits = 0

\* Passes with a fault: a call at the threshold itself is filtered out
PassesAbove(lv) == lv > config_level

\* _log, lines 118-119: if level.value < self._config.level.value: return
Passes(lv) == ~(lv < config_level)

\* _log, lines 163-164: for handler in self._handlers: handler.emit(entry), from
\* handler i on. A built-in handler catches its own I/O failure (it writes nothing
\* and returns); an exception leaving a handler's emit leaves the loop and _log
RECURSIVE EmitFrom(_, _)
EmitFrom(i, entry) ==
    IF i > Len(chain) THEN [calls |-> <<>>, outputs |-> <<>>, raised |-> FALSE]
    ELSE LET call == <<[h |-> i, rec |-> entry]>>
         IN IF chain[i] = "raises"
            THEN [calls |-> call, outputs |-> <<>>, raised |-> TRUE]
            ELSE LET rest == EmitFrom(i + 1, entry)
                 IN [calls |-> call \o rest.calls,
                     outputs |-> (IF chain[i] = "ok" THEN call ELSE <<>>)
                                   \o rest.outputs,
                     raised |-> rest.raised]

\* _log, lines 110-164, called through debug / info / warning / error / critical
Log(lv) ==
    /\ Len(logged) < MaxLogCalls
    /\ logged' = Append(logged, lv)
    /\ IF Passes(lv)
       THEN LET entry == [id |-> Len(logged) + 1, level |-> LevelName(lv)]
                out == EmitFrom(1, entry)
            IN /\ calls' = calls \o out.calls
               /\ outputs' = outputs \o out.outputs
               /\ raised' = out.raised
               /\ lastEmits' = Len(out.calls)
       ELSE /\ raised' = FALSE
            /\ lastEmits' = 0
            /\ UNCHANGED <<calls, outputs>>
    /\ UNCHANGED <<config_level, chain>>
    /\ UNCHANGED nonLogVars

(***************************************************************************)
(* Logger contexts: with_context and the entry _log builds (logger.py)     *)
(***************************************************************************)
EmptyDict == [k \in {} |-> "v1"]

\* {**a, **b}, and the assignments a[k] = b[k] for the keys of b
Overlay(a, b) ==
    [k \in (DOMAIN a) \cup (DOMAIN b) |-> IF k \in DOMAIN b THEN b[k] ELSE a[k]]

Restrict(m, S) == [k \in S |-> m[k]]

\* no entry built yet
NoEntry == [top |-> EmptyDict, context |-> EmptyDict, built |-> FALSE]

\* Logger.__init__, line 101: self._context = context or {} (an empty dict is
\* replaced by a new one)
OrEmpty(ds, d) ==
    IF ds[d] = EmptyDict
    THEN [dicts |-> Append(ds, EmptyDict), at |-> Len(ds) + 1]
    ELSE [dicts |-> ds, at |-> d]

\* the contents of Logger l's _context
ContextOf(l) == dicts[context[l]]

\* the root Logger, built by initialize with config.default_context
ContextInit ==
    /\ \E c0 \in Defaults :
          LET made == OrEmpty(<<c0>>, 1)
          IN /\ dicts = made.dicts
             /\ context = <<made.at>>
    /\ derivation = <<[parent |-> 0, pairs |-> dicts[context[1]],
                       before |-> EmptyDict]>>
    /\ lastEntry = NoEntry
    /\ lastCall = [logger |-> 0, fields |-> EmptyDict]

\* CopyContext with a fault: no copy is made, the new context is the receiver's dict
AliasContext(ds, d) == [dicts |-> ds, at |-> d]

\* with_context, line 210: new_context = copy.deepcopy(self._context), a new dict
\* with the same contents (the values of the model are immutable)
CopyContext(ds, d) == [dicts |-> Append(ds, ds[d]), at |-> Len(ds) + 1]

\* with_context, lines 210-214: the copy, the assignments new_context[key] = value,
\* and the new Logger
WithContext(l, pairs) ==
    /\ Len(context) < MaxDerived + 1
    /\ LET copied == CopyContext(dicts, context[l])
           assigned == [copied.dicts EXCEPT
                          ![copied.at] = Overlay(copied.dicts[copied.at], pairs)]
           made == OrEmpty(assigned, copied.at)
       IN /\ dicts' = made.dicts
          /\ context' = Append(context, made.at)
    /\ derivation' = Append(derivation, [parent |-> l, pairs |-> pairs,
                                         before |-> ContextOf(l)])
    /\ UNCHANGED <<lastEntry, lastCall>>
    /\ UNCHANGED nonCtxVars

\* _log, line 146
special_keys == <<"correlation_id", "user_id", "trace_id", "span_id">>

\* Merged with a fault: the logger's context wins over the call's fields
MergedContextWins(ctx, kwargs) == Overlay(kwargs, ctx)

\* _log, line 125: merged_context = {**self._context, **kwargs}
Merged(ctx, kwargs) == Overlay(ctx, kwargs)

\* PromoteKey with a fault: the promoted key is left in the nested context
PromoteKeepNested(e, merged, key) ==
    IF key \in DOMAIN merged
    THEN [e EXCEPT !.top = Overlay(e.top, Restrict(merged, {key}))]
    ELSE e

\* _log, lines 148-151: if key in merged_context: entry[key] = merged_context[key];
\* del entry["context"][key]
PromoteKey(e, merged, key) ==
    IF key \in DOMAIN merged
    THEN [e EXCEPT !.top = Overlay(e.top, Restrict(merged, {key})),
                   !.context = Restrict(e.context, (DOMAIN e.context) \ {key})]
    ELSE e

\* _log, lines 147-151: for key in special_keys, from the i-th key on
RECURSIVE PromoteFrom(_, _, _)
PromoteFrom(i, e, merged) ==
    IF i > Len(special_keys) THEN e
    ELSE PromoteFrom(i + 1, PromoteKey(e, merged, special_keys[i]), merged)

\* _log, lines 125-151: the entry's promoted keys and its nested context
BuildEntry(ctx, kwargs) ==
    LET merged == Merged(ctx, kwargs)
    IN PromoteFrom(1, [top |-> EmptyDict, context |-> merged, built |-> TRUE], merged)

\* a log call on Logger l with the fields kwargs, at or above the threshold
LogFields(l, kwargs) ==
    /\ lastEntry' = BuildEntry(ContextOf(l), kwargs)
    /\ lastCall' = [logger |-> l, fields |-> kwargs]
    /\ UNCHANGED <<dicts, context, derivation>>
    /\ UNCHANGED nonCtxVars

(***************************************************************************)
(* The entry points of a Logger and the source location of an entry        *)
(* (logger.py: debug .. critical, timer, _log, _capture_source_location)   *)
(***************************************************************************)
\* the i-th frame of the application's call stack, counted from the bottom
AppFrame(i) == [file |-> "app.py", line |-> i,
                function |-> IF i = 1 THEN "<module>" ELSE "helper"]

\* the application's stack: d frames (none when the interpreter calls the logging
\* method itself, as for atexit.register(logger.info, ...) or a thread's target)
AppStack(d) == [i \in 1..d |-> AppFrame(i)]

\* a frame of logger.py
LibFrame(f) == [file |-> "logger.py", line |-> 1, function |-> f]

\* the frame of contextlib's _GeneratorContextManager.__exit__, which resumes the
\* generator of a @contextmanager function
ExitFrame == [file |-> "contextlib.py", line |-> 1, function |-> "__exit__"]

\* the level each public method logs at, lines 166-194
MethodLevel(e) ==
    CASE e = "debug" -> 10
      [] e = "info" -> 20
      [] e = "warning" -> 30
      [] e = "error" -> 40
      [] e = "critical" -> 50

\* _capture_source_location, lines 47-51: frame = frame.f_back, stack_depth times,
\* stopping at None (0); frame i's f_back is frame i - 1
RECURSIVE Back(_, _)
Back(frame, n) ==
    IF n = 0 \/ frame = 0 THEN frame ELSE Back(frame - 1, n - 1)

\* _capture_source_location, lines 46-66, called on top of the stack stk
CaptureSourceLocation(stk, stack_depth) ==
    LET all == Append(stk, LibFrame("_capture_source_location"))
        frame == Back(Len(all), stack_depth)
    IN IF frame = 0
       THEN [file |-> "<unknown>", line |-> 0, function |-> "<unknown>"]
       ELSE all[frame]

\* _log, lines 118-164, running on top of the stack stk (its own frame included):
\* the entries passed to the handler
LogFrom(stk, lv, message, duration, fields, via, d) ==
    IF lv < threshold THEN <<>>
    ELSE LET source == CaptureSourceLocation(stk, 3)
         IN <<[level |-> LevelName(lv), message |-> message,
               file |-> source.file, line |-> source.line,
               function |-> source.function,
               duration_ms |-> duration, fields |-> fields,
               via |-> via, depth |-> d]>>

NoScope == [done |-> FALSE, logged |-> 0, exc |-> "none", fields |-> {},
            raises |-> FALSE]

\* a Logger with its threshold, before any call
SourceInit ==
    /\ threshold \in Levels
    /\ handled = <<>>
    /\ ncalls = 0
    /\ clock = 0
    /\ tpc = "idle"
    /\ tstart = 0
    /\ tdepth = 1
    /\ tfields = {}
    /\ twork = FALSE
    /\ scope = NoScope

\* debug / info / warning / error / critical, lines 166-194, called from an
\* application stack of d frames
MethodCall(e, d) ==
    /\ ncalls < MaxEntryCalls
    /\ ncalls' = ncalls + 1
    /\ handled' = handled \o LogFrom(AppStack(d) \o <<LibFrame(e), LibFrame("_log")>>,
                                     MethodLevel(e), "msg", -1, {}, e, d)
    /\ UNCHANGED <<threshold, clock, tpc, tstart, tdepth, tfields, twork, scope>>
    /\ UNCHANGED nonSrcVars

\* timer, lines 225-227: start = time.perf_counter(); yield: the body of the with
\* statement starts
TimerEnter(d, fields, raises) ==
    /\ tpc = "idle"
    /\ ncalls < MaxEntryCalls
    /\ ncalls' = ncalls + 1
    /\ tpc' = "scope"
    /\ tstart' = clock
    /\ tdepth' = d
    /\ tfields' = fields
    /\ twork' = raises
    /\ UNCHANGED <<threshold, handled, clock, scope>>
    /\ UNCHANGED nonSrcVars

\* the monotonic clock advances while the wrapped work runs
Tick ==
    /\ tpc = "scope"
    /\ clock < MaxClock
    /\ clock' = clock + 1
    /\ UNCHANGED <<threshold, handled, ncalls, tpc, tstart, tdepth, tfields, twork,
                   scope>>
    /\ UNCHANGED nonSrcVars

\* timer, lines 228-235: the with statement ends, contextlib's __exit__ resumes (or
\* throws into) the generator, whose finally block calls
\* self._log(LogLevel.INFO, operation, duration_ms=duration_ms, **kwargs); a
\* duration_ms among kwargs makes the call itself fail (the keyword is given twice)
TimerExit ==
    /\ tpc = "scope"
    /\ tpc' = "idle"
    /\ LET duration_ms == (clock - tstart) * 1000
           stk == AppStack(tdepth) \o <<ExitFrame, LibFrame("timer"), LibFrame("_log")>>
           out == IF "duration_ms" \in tfields THEN <<>>
                  ELSE LogFrom(stk, 20, "op", duration_ms, tfields, "timer", tdepth)
       IN /\ handled' = handled \o out
          /\ scope' = [done |-> TRUE, logged |-> Len(out),
                       exc |-> IF "duration_ms" \in tfields THEN "TypeError"
                               ELSE IF twork THEN "ValueError" ELSE "none",
                       fields |-> tfields, raises |-> twork]
    /\ UNCHANGED <<threshold, ncalls, clock, tstart, tdepth, tfields, twork>>
    /\ UNCHANGED nonSrcVars

(***************************************************************************)
(* I/O failures inside emit: FileHandler.emit (file.py 40-50),             *)
(* RotatingFileHandler.emit (rotating.py 97-115) and the two places where  *)
(* AsyncHandler calls its underlying handler's emit (async_handler.py      *)
(* 113-119 on the consumer thread, 135-141 on the producer's under the     *)
(* fallback policy).  Each I/O operation either succeeds or raises OSError.*)
(***************************************************************************)
\* the built-in handlers; the AsyncHandler wraps a FileHandler
Targets == {"file", "rotating", "async"}

\* who calls the file handler's emit: the application, the consumer thread's
\* _flush_batch, or the producer's own thread under the fallback policy
Paths == {"direct", "consumer", "fallback"}

FailureInit ==
    /\ target \in Targets
    /\ ecaller = "direct"
    /\ epc = "idle"
    /\ efile = TRUE
    /\ exc = "none"
    /\ ecalls = 0
    /\ ewritten = 0
    /\ failures = 0
    /\ stderr = 0
    /\ propagated = 0

\* an I/O operation raised: control passes to the except clause of emit
Raise ==
    /\ exc' = "OSError"
    /\ failures' = failures + 1
    /\ epc' = "except"

\* emit(entry) is entered; rot: _should_rotate(message_size) holds
FEmitCall(rot, path) ==
    /\ epc = "idle"
    /\ ecalls < MaxEmits
    /\ (target = "async") = (path # "direct")
    /\ ecaller' = path
    /\ epc' = IF target = "rotating" /\ rot THEN "rotate" ELSE "write"
    /\ UNCHANGED <<target, efile, exc, ecalls, ewritten, failures, stderr, propagated>>
    /\ UNCHANGED nonFailVars

\* _do_rotate: the file is closed, the renames run and the file is reopened
FRotate(ok) ==
    /\ epc = "rotate"
    /\ efile' = ok
    /\ IF ok THEN epc' = "write" /\ UNCHANGED <<exc, failures>>
             ELSE Raise
    /\ UNCHANGED <<target, ecaller, ecalls, ewritten, stderr, propagated>>
    /\ UNCHANGED nonFailVars

\* if self._file and not self._file.closed: self._file.write(output + "\n")
FWrite(ok) ==
    /\ epc = "write"
    /\ IF ~efile THEN epc' = "return" /\ UNCHANGED <<exc, failures, ewritten>>
       ELSE IF ok THEN /\ ewritten' = ewritten + 1
                       /\ epc' = "flush"
                       /\ UNCHANGED <<exc, failures>>
       ELSE Raise /\ UNCHANGED ewritten
    /\ UNCHANGED <<target, ecaller, efile, ecalls, stderr, propagated>>
    /\ UNCHANGED nonFailVars

\* self._file.flush()
FFlush(ok) ==
    /\ epc = "flush"
    /\ IF ok THEN epc' = "return" /\ UNCHANGED <<exc, failures>>
             ELSE Raise
    /\ UNCHANGED <<target, ecaller, efile, ecalls, ewritten, stderr, propagated>>
    /\ UNCHANGED nonFailVars

\* except Exception: pass
FExcept ==
    /\ epc = "except"
    /\ exc' = "none"
    /\ epc' = "return"
    /\ UNCHANGED <<target, ecaller, efile, ecalls, ewritten, failures, stderr, propagated>>
    /\ UNCHANGED nonFailVars

\* the file handler's emit is left; an exception still in flight reaches its caller:
\* the application, _flush_batch (which prints it to stderr) or the fallback
\* branch of AsyncHandler.emit (which passes)
FReturn ==
    /\ epc = "return"
    /\ epc' = "idle"
    /\ ecalls' = ecalls + 1
    /\ exc' = "none"
    /\ stderr' = IF exc # "none" /\ ecaller = "consumer" THEN stderr + 1 ELSE stderr
    /\ propagated' = IF exc # "none" /\ ecaller = "direct" THEN propagated + 1
                     ELSE propagated
    /\ UNCHANGED <<target, ecaller, efile, ewritten, failures>>
    /\ UNCHANGED nonFailVars

(***************************************************************************)
(* The context property (logger.py 105-108) and what its caller can do     *)
(* with the dict it returns.  A context value is an immutable string or a  *)
(* mutable object (a nested dict or list), which has an identity: two      *)
(* dicts can hold the same object.                                         *)
(***************************************************************************)
ViewKeys == {"user_id", "tags"}

\* the identities of the nested objects
Objects == 1..MaxNested

\* a dict's value: the string val when obj = 0, else the object of that identity
Cells == [obj : {0}, val : Values] \cup [obj : Objects, val : {"v1"}]

CellDicts == UNION {[S -> Cells] : S \in SUBSET ViewKeys}

NoCells == [k \in {} |-> [obj |-> 0, val |-> "v1"]]

\* a dict as it is serialized: each nested object read at this moment
Resolved(d, h) == [k \in DOMAIN d |-> IF d[k].obj = 0 THEN d[k].val ELSE h[d[k].obj]]

\* Logger.__init__, line 101: the Logger holds a context whose values were passed
\* in by its creator (with_context's kwargs or the configuration's default_context)
ViewInit ==
    /\ stored \in CellDicts
    /\ heap \in [Objects -> Values]
    /\ view = NoCells
    /\ before = [taken |-> FALSE, context |-> EmptyDict]
    /\ sent = [logged |-> FALSE, context |-> EmptyDict]

\* dict.copy(): a new dict holding the same keys and the same value objects
ShallowCopy(d) == [k \in DOMAIN d |-> d[k]]

\* the context property, line 108: return self._context.copy()
ContextProperty ==
    /\ view' = ShallowCopy(stored)
    /\ before' = [taken |-> TRUE, context |-> Resolved(stored, heap)]
    /\ UNCHANGED <<stored, heap, sent>>
    /\ UNCHANGED nonViewVars

\* the caller adds or replaces a key of the returned dict: view[k] = v
ViewSet(k, v) ==
    /\ before.taken
    /\ view' = Overlay(view, (k :> [obj |-> 0, val |-> v]))
    /\ UNCHANGED <<stored, heap, before, sent>>
    /\ UNCHANGED nonViewVars

\* the caller mutates a nested value of the returned dict: view[k][...] = v
ViewMutate(k, v) ==
    /\ before.taken
    /\ k \in DOMAIN view
    /\ view[k].obj # 0
    /\ heap' = [heap EXCEPT ![view[k].obj] = v]
    /\ UNCHANGED <<stored, view, before, sent>>
    /\ UNCHANGED nonViewVars

\* _log, lines 124-152: a later log call emits the Logger's context
ViewLog ==
    /\ before.taken
    /\ sent' = [logged |-> TRUE, context |-> Resolved(stored, heap)]
    /\ UNCHANGED <<stored, heap, view, before>>
    /\ UNCHANGED nonViewVars

(***************************************************************************)
(* The specifications: one per subsystem.                                  *)
(***************************************************************************)
\* one construction of the subsystems a specification leaves alone
QuietAsync == AsyncInit /\ on_full = "drop"

QuietFile == FileInit /\ kind = "file" /\ disk[0] = NewFile

QuietLogger == LoggerInit /\ config_level = 20 /\ chain = <<>>

QuietContext == ContextInit /\ dicts = <<EmptyDict, EmptyDict>>

QuietSource == SourceInit /\ threshold = 20

QuietFailure == FailureInit /\ target = "file"

QuietView == ViewInit /\ stored = NoCells /\ \A o \in Objects : heap[o] = "v1"

\* the async handler alone
InitAsync ==
    /\ AsyncInit /\ QuietFile /\ RegistryInit /\ QuietLogger
    /\ QuietContext /\ QuietSource
    /\ QuietFailure /\ QuietView

\* the file handlers alone
InitFile ==
    /\ QuietAsync /\ FileInit /\ RegistryInit /\ QuietLogger
    /\ QuietContext /\ QuietSource
    /\ QuietFailure /\ QuietView

\* the registry alone
InitRegistry ==
    /\ QuietAsync /\ QuietFile /\ RegistryInit /\ QuietLogger
    /\ QuietContext /\ QuietSource
    /\ QuietFailure /\ QuietView

\* a Logger alone
InitLogger ==
    /\ QuietAsync /\ QuietFile /\ RegistryInit /\ LoggerInit
    /\ QuietContext /\ QuietSource
    /\ QuietFailure /\ QuietView

\* Loggers and their contexts alone
InitContext ==
    /\ QuietAsync /\ QuietFile /\ RegistryInit /\ QuietLogger /\ ContextInit
    /\ QuietSource /\ QuietFailure /\ QuietView

\* the entry points of a Logger alone
InitSource ==
    /\ QuietAsync /\ QuietFile /\ RegistryInit /\ QuietLogger /\ QuietContext
    /\ SourceInit /\ QuietFailure /\ QuietView

\* emit under I/O failures alone
InitFailure ==
    /\ QuietAsync /\ QuietFile /\ RegistryInit /\ QuietLogger /\ QuietContext
    /\ QuietSource /\ FailureInit /\ QuietView

\* a Logger and the mappings read from its context property alone
InitView ==
    /\ QuietAsync /\ QuietFile /\ RegistryInit /\ QuietLogger /\ QuietContext
    /\ QuietSource /\ QuietFailure /\ ViewInit

NextAsync == (\E p \in Producers : Producer(p)) \/ Consumer \/ Main

NextFile == (\E w \in Writers : Writer(w)) \/ FileClose

NextRegistry ==
    \/ \E sn \in ServiceNames : Initialize(sn)
    \/ \E t \in Callers : GetLogger(t)
    \/ Shutdown

\* the registry used by one thread at a time: a call starts only when no other call
\* is running
SeqInitialize(sn) == InCall = {} /\ Initialize(sn)

SeqGCall(t, n) == InCall = {} /\ rpc = "idle" /\ GCall(t, n)

SeqShutdownHandlers == InCall = {} /\ ShutdownHandlers

NextLifecycle ==
    \/ \E sn \in ServiceNames : SeqInitialize(sn)
    \/ \E t \in Callers, n \in Names : SeqGCall(t, n)
    \/ \E t \in Callers : GCheck(t) \/ GRoot(t) \/ GStore(t) \/ GReturn(t)
    \/ SeqShutdownHandlers
    \/ ShutdownClear
    \/ ShutdownConfig

NextLogger == \E lv \in Levels : Log(lv)

NextContext ==
    \/ \E l \in 1..Len(context), pairs \in PairChoices : WithContext(l, pairs)
    \/ \E l \in 1..Len(context), kwargs \in Dicts : LogFields(l, kwargs)

SpecAsync == InitAsync /\ [][NextAsync]_vars

\* close() alone, with no flush() before it
Close ==
    \/ MainCall("close")
    \/ CloseSetStop \/ ClosePutSentinel \/ CloseJoin
    \/ CloseFlushUnderlying \/ CloseCloseUnderlying

NextAsyncLive == (\E p \in Producers : Producer(p)) \/ Consumer \/ Close

\* the AsyncHandler under producers and close(), with a consumer thread that is
\* scheduled whenever it can run
SpecAsyncLive == InitAsync /\ [][NextAsyncLive]_vars /\ WF_vars(Consumer)

SpecFile == InitFile /\ [][NextFile]_vars

SpecRegistry == InitRegistry /\ [][NextRegistry]_vars

SpecLifecycle == InitRegistry /\ [][NextLifecycle]_vars

SpecLogger == InitLogger /\ [][NextLogger]_vars

SpecContext == InitContext /\ [][NextContext]_vars

NextSource ==
    \/ \E e \in Methods, d \in 0..MaxDepth : MethodCall(e, d)
    \/ \E d \in 1..MaxDepth, fields \in TimerFields, raises \in BOOLEAN :
          TimerEnter(d, fields, raises)
    \/ Tick
    \/ TimerExit

SpecSource == InitSource /\ [][NextSource]_vars

NextFailure ==
    \/ \E rot \in BOOLEAN, path \in Paths : FEmitCall(rot, path)
    \/ \E ok \in BOOLEAN : FRotate(ok)
    \/ \E ok \in BOOLEAN : FWrite(ok)
    \/ \E ok \in BOOLEAN : FFlush(ok)
    \/ FExcept
    \/ FReturn

SpecFailure == InitFailure /\ [][NextFailure]_vars

NextView ==
    \/ ContextProperty
    \/ \E k \in ViewKeys, v \in Values : ViewSet(k, v)
    \/ \E k \in ViewKeys, v \in Values : ViewMutate(k, v)
    \/ ViewLog

SpecView == InitView /\ [][NextView]_vars

(***************************************************************************)
(* Claims about the AsyncHandler, checked under SpecAsync.                 *)
(***************************************************************************)
Occurrences(s, r) == Cardinality({i \in 1..Len(s) : s[i] = r})

AllDelivered == accepted \subseteq Range(delivered)

\* C1: under the Block policy, once close() has returned and the consumer thread has
\* run to completion, every record that entered the queue has been passed to the
\* underlying handler's emit (no enqueued record is lost).
C1_BlockNoLoss ==
    (on_full = "block" /\ mpc = "closed" /\ cpc = "done" /\ ~joinTimedOut
        /\ ProducersIdle)
    => AllDelivered

\* C2: when shutdown() (flush, then close) has returned, no producer ran during it,
\* the queue never overflowed and neither wait timed out, every record logged before
\* it has been passed to the underlying handler's emit.
C2_ShutdownDeliversAll ==
    (mop = "shutdown" /\ mpc = "closed" /\ ~busyShutdown /\ fullSeen = {}
        /\ ~flushTimedOut /\ ~joinTimedOut /\ ProducersIdle)
    => AllDelivered

\* C3: under the Drop policy dropped_count equals the number of enqueue attempts minus
\* the number of records queued (an attempt that found the queue full and has not yet
\* counted itself is still inside emit), a dropped record is in no queue, batch or
\* underlying write, and a producer inside emit can always take its next step.
C3_DropCounts ==
    on_full = "drop" =>
        /\ dropped_count + Cardinality({p \in Producers : ppc[p] = "full"})
             = attempts - Cardinality(accepted)
        /\ ProducersIdle => dropped_count = attempts - Cardinality(accepted)
        /\ \A r \in fullSeen :
              /\ r \notin accepted
              /\ r \notin Range(queue) \cup Range(batch) \cup Range(delivered)
        /\ \A p \in Producers : ppc[p] # "idle" => ENABLED Producer(p)

\* C3 witness: a stalled consumer, a full queue, more attempts than the capacity and
\* at least one drop, all emits returned.
C3_Witness ==
    /\ on_full = "drop"
    /\ cpc = "loop" /\ batch = <<>> /\ delivered = <<>>
    /\ Len(queue) = QueueCap
    /\ attempts > QueueCap
    /\ dropped_count >= 1
    /\ ProducersIdle

\* C4: under the Fallback policy every emit that found the queue full counts one drop,
\* and once it has returned its record has been passed to the underlying handler
\* exactly once and has never been enqueued.
C4_FallbackWritesOnce ==
    on_full = "fallback" =>
        /\ dropped_count = Cardinality(fullSeen)
                             - Cardinality({p \in Producers : ppc[p] = "full"})
        /\ \A r \in fullSeen :
              /\ r \notin accepted
              /\ r \notin Range(queue) \cup Range(batch)
              /\ r \in returned => Occurrences(delivered, r) = 1

\* C4 witness: a Fallback emit that found the queue full has returned.
C4_Witness ==
    /\ on_full = "fallback"
    /\ \E r \in fullSeen \cap returned : Occurrences(delivered, r) = 1
    /\ dropped_count >= 1

(***************************************************************************)
(* Claims about FileHandler and RotatingFileHandler, checked under         *)
(* SpecFile.                                                               *)
(***************************************************************************)
WritersIdle == \A w \in Writers : wpc[w] = "idle"

\* the data is a sequence of whole lines: each record's bytes are contiguous
RECURSIVE WholeLines(_)
WholeLines(data) ==
    IF data = <<>> THEN TRUE
    ELSE LET n == recSize[Head(data)]
         IN /\ Len(data) >= n
            /\ \A k \in 1..n : data[k] = Head(data)
            /\ WholeLines(SubSeq(data, n + 1, Len(data)))

Min(a, b) == IF a <= b THEN a ELSE b

\* C5: when the writer threads' emits have all returned (the handler not closed, no
\* rotation having discarded content), every file holds whole lines only, every
\* emitted record is on disk exactly once, and there are as many records on disk as
\* emit calls.
C5_WholeLinesNoLoss ==
    (WritersIdle /\ ~closedEver /\ ~discarded) =>
        /\ \A i \in Indexes : WholeLines(disk[i].data)
        /\ Len(emitted) = nextRec - 1
        /\ \A r \in 1..(nextRec - 1) :
              /\ r \in Range(emitted)
              /\ BytesOf(disk, r) = recSize[r]

\* C5 witness: two emits overlapped (the record formatted second was written first)
\* and every record of the run has been written.
C5_Witness ==
    /\ WritersIdle /\ ~closedEver /\ ~discarded
    /\ Len(emitted) = MaxWrites
    /\ emitted[1] > emitted[2]

\* C6: with backup_count = N >= 1 and k rotations performed, the backups that exist
\* are exactly P.1 .. P.min(k, N), P.(N+1) does not exist, P.i holds the content of
\* the i-th most recent rotation, and P.1 the content most recently rotated.
C6_BackupLayout ==
    (kind = "rotating" /\ backup_count >= 1) =>
        /\ \A i \in 1..(MaxBackup + 1) :
              /\ disk[i].exists <=> i <= Min(rotations, backup_count)
              /\ disk[i].exists => disk[i].gen = rotations - i + 1
        /\ rotations >= 1 => disk[1].data = lastRotated

\* C6 witness: more rotations than backups: P, P.1 and P.2 exist and P.3 does not.
C6_Witness ==
    /\ kind = "rotating" /\ backup_count = 2
    /\ rotations > backup_count
    /\ disk[0].exists /\ disk[1].exists /\ disk[2].exists /\ ~disk[3].exists
    /\ disk[1].data # <<>>

\* C7: with backup_count = 0 no backup file P.i (i >= 1) ever exists.
C7_NoBackups ==
    (kind = "rotating" /\ backup_count = 0) =>
        \A i \in 1..(MaxBackup + 1) : ~disk[i].exists

(***************************************************************************)
(* Claims about the registry, checked under SpecRegistry.                  *)
(***************************************************************************)
\* C8: within one initialization, get_logger creates at most one Logger per name, and
\* all callers whose get_logger call for a name (made after initialize) has returned
\* hold the same Logger instance (none of them an error).
C8_OneLoggerPerName ==
    (epoch = 1 /\ ~everShutdown) =>
        /\ \A n \in Names : created[n] <= 1
        /\ \A t1, t2 \in Callers :
              (gpc[t1] = "done" /\ gpc[t2] = "done" /\ gname[t1] = gname[t2]
                  /\ gepoch[t1] = 1 /\ gepoch[t2] = 1)
              => (gres[t1].status = "logger" /\ gres[t1] = gres[t2])

\* C36: a get_logger call, shutdown() running concurrently or not, ends in one of two
\* ways: it returns a Logger or fails with the 'not initialized' error.
C36_TwoOutcomes ==
    \A t \in Callers :
        gpc[t] = "done" => gres[t].status \in {"logger", "NotInitialized"}

(***************************************************************************)
(* Claims about Logger._log, checked under SpecLogger.                     *)
(***************************************************************************)
\* the handler emit calls made for record id, in order
CallsFor(id) == SelectSeq(calls, LAMBDA c : c.rec.id = id)

\* C9: a log call at or above the threshold does not raise into its caller and calls
\* emit on every handler of the chain, in chain order, whatever a handler's emit does.
C9_EveryHandlerReceives ==
    (logged # <<>> /\ logged[Len(logged)] >= config_level) =>
        /\ ~raised
        /\ LET got == CallsFor(Len(logged))
           IN /\ Len(got) = Len(chain)
              /\ \A i \in 1..Len(got) : got[i].h = i

\* C10: a log call makes no handler call when its level is below the threshold and
\* reaches the handlers when it is at or above it; every record a handler receives
\* carries the name of a level at or above the threshold, that of its call.
C10_ThresholdFilter ==
    /\ logged # <<>> =>
          LET lv == logged[Len(logged)]
          IN /\ lv < config_level => lastEmits = 0
             /\ (lv >= config_level /\ chain # <<>>) =>
                   /\ lastEmits >= 1
                   /\ calls[Len(calls)].rec = [id |-> Len(logged),
                                               level |-> LevelName(lv)]
    /\ \A k \in 1..Len(calls) :
          /\ calls[k].rec.id \in 1..Len(logged)
          /\ logged[calls[k].rec.id] >= config_level
          /\ calls[k].rec.level = LevelName(logged[calls[k].rec.id])

\* C10 witness: threshold ERROR; debug, info and warning calls produce no record and
\* the error call after them exactly one, with level "ERROR".
C10_Witness ==
    /\ config_level = 40
    /\ chain = <<"ok">>
    /\ logged = <<10, 20, 30, 40>>
    /\ calls = <<[h |-> 1, rec |-> [id |-> 4, level |-> "ERROR"]]>>
    /\ outputs = calls

(***************************************************************************)
(* Claims about Logger contexts, checked under SpecContext.                *)
(***************************************************************************)
Has(m, k, v) == k \in DOMAIN m /\ m[k] = v

\* C11: with_context leaves the receiver's context what it was before the call, the
\* Logger it returns holds the receiver's context overlaid with the pairs (the pairs
\* win), and no two Loggers share a context, so that Loggers derived from one parent
\* stay what they were built as whatever is derived afterwards.
C11_WithContextPure ==
    /\ \A i \in 2..Len(context) :
          LET d == derivation[i]
          IN /\ ContextOf(d.parent) = d.before
             /\ DOMAIN ContextOf(i) = (DOMAIN d.before) \cup (DOMAIN d.pairs)
             /\ \A k \in DOMAIN ContextOf(i) :
                   ContextOf(i)[k] = IF k \in DOMAIN d.pairs THEN d.pairs[k]
                                     ELSE d.before[k]
    /\ \A i, j \in 1..Len(context) : i # j => context[i] # context[j]

\* C11 witness: two Loggers derived from one parent that holds status = v1, the first
\* overriding status, the second adding user_id; the parent still holds status = v1
\* only.
C11_Witness ==
    /\ Len(context) = 3
    /\ derivation[2].parent = 1 /\ derivation[3].parent = 1
    /\ ContextOf(1) = [k \in {"status"} |-> "v1"]
    /\ ContextOf(2) = [k \in {"status"} |-> "v2"]
    /\ Has(ContextOf(3), "status", "v1") /\ Has(ContextOf(3), "user_id", "v2")

\* the reserved keys
Reserved == {"correlation_id", "user_id", "trace_id", "span_id"}

RECURSIVE ChainValue(_, _)
ChainValue(l, k) ==
    IF l = 0 THEN "none"
    ELSE IF k \in DOMAIN derivation[l].pairs THEN derivation[l].pairs[k]
         ELSE ChainValue(derivation[l].parent, k)

\* the value key k has in the entry, at the top level or nested
EntryValue(k) ==
    IF k \in DOMAIN lastEntry.top THEN lastEntry.top[k]
    ELSE IF k \in DOMAIN lastEntry.context THEN lastEntry.context[k]
    ELSE "none"

\* C13: in the entry a log call builds, each key has the value of the call's fields
\* if the fields hold it, otherwise the value of the most recent with_context of the
\* logger's derivation chain that set it, and is absent if neither holds it.
C13_FieldsThenLatestContext ==
    lastEntry.built =>
        \A k \in Keys :
            EntryValue(k) = IF k \in DOMAIN lastCall.fields THEN lastCall.fields[k]
                            ELSE ChainValue(lastCall.logger, k)

\* C13 witness: with_context(user_id = v1).with_context(user_id = v2), then a log
\* call whose fields set status only: the entry's top-level user_id is v2.
C13_Witness ==
    /\ Len(context) = 3
    /\ derivation[2] = [parent |-> 1, pairs |-> [k \in {"user_id"} |-> "v1"],
                        before |-> EmptyDict]
    /\ derivation[3].parent = 2
    /\ derivation[3].pairs = [k \in {"user_id"} |-> "v2"]
    /\ lastCall = [logger |-> 3, fields |-> [k \in {"status"} |-> "v1"]]
    /\ Has(lastEntry.top, "user_id", "v2")

(***************************************************************************)
(* Claims about the entry points and the source location, checked under    *)
(* SpecSource.                                                             *)
(***************************************************************************)
\* C14: every entry passed to a handler, whatever the entry point and the depth of
\* the stack that called it, has a non-empty file, a line number above 0 and a
\* non-empty function, and never the <unknown> / 0 placeholder.
C14_SourceAlwaysPresent ==
    \A i \in 1..Len(handled) :
        /\ handled[i].file # "" /\ handled[i].file # "<unknown>"
        /\ handled[i].line > 0
        /\ handled[i].function # "" /\ handled[i].function # "<unknown>"

\* C15: every entry produced by a call made from application code, through a public
\* method or at the exit of a timer scope, names the application frame that made the
\* call (its file, line and function), never a frame of the library or of a helper
\* between that frame and _log.
C15_SourceIsCaller ==
    \A i \in 1..Len(handled) :
        handled[i].depth >= 1 =>
            [file |-> handled[i].file, line |-> handled[i].line,
             function |-> handled[i].function] = AppFrame(handled[i].depth)

\* C16: a timer scope that has ended has passed exactly one entry to the handler, an
\* INFO entry with the label as message, a duration_ms of at least 0 and the scope's
\* fields; the exception leaving the with statement is that of the wrapped work, and
\* none when the work did not raise.
C16_TimerLogsOnce ==
    scope.done =>
        /\ scope.logged = 1
        /\ handled # <<>>
        /\ LET e == handled[Len(handled)]
           IN /\ e.via = "timer"
              /\ e.level = "INFO"
              /\ e.message = "op"
              /\ e.duration_ms >= 0
              /\ e.fields = scope.fields
        /\ scope.exc = IF scope.raises THEN "ValueError" ELSE "none"

(***************************************************************************)
(* Claims about the registry used sequentially, checked under              *)
(* SpecLifecycle.                                                          *)
(***************************************************************************)
\* C17: a get_logger call fails with the not-initialized error exactly when it is made
\* while the registry is uninitialized (before the first initialize, or after a
\* shutdown and before the next initialize); made after an initialize and before the
\* next shutdown it returns a Logger.
C17_NotInitializedIffUninitialized ==
    \A t \in Callers :
        gpc[t] = "done" =>
            /\ gres[t].status = "NotInitialized" <=> ~glive[t]
            /\ glive[t] => gres[t].status = "logger"

\* C17 witness: one caller's get_logger returned a Logger between initialize and
\* shutdown, and another caller's get_logger, made after that shutdown, failed with
\* the not-initialized error.
C17_Witness ==
    /\ everShutdown /\ ~live /\ rpc = "idle"
    /\ gpc["g1"] = "done" /\ glive["g1"] /\ gres["g1"].status = "logger"
    /\ gpc["g2"] = "done" /\ ~glive["g2"] /\ gepoch["g2"] = 1
    /\ gres["g2"].status = "NotInitialized"

\* the calls of callers t1 and t2 were both made after the latest initialize, with no
\* shutdown since, and have returned
SameWindow(t1, t2) ==
    /\ live /\ rpc = "idle"
    /\ gpc[t1] = "done" /\ gpc[t2] = "done"
    /\ glive[t1] /\ glive[t2]
    /\ gepoch[t1] = epoch /\ gepoch[t2] = epoch

\* C18: of the get_logger calls made one after the other since the latest initialize,
\* with no shutdown since, two calls for one name returned the same Logger instance
\* and two calls for distinct names distinct instances, and the Logger a call
\* returned is still the registry's entry for its name (the entry is not replaced).
C18_SameInstancePerName ==
    \A t1, t2 \in Callers :
        SameWindow(t1, t2) =>
            /\ gres[t1].status = "logger" /\ gres[t2].status = "logger"
            /\ gname[t1] = gname[t2] => gres[t1].logger = gres[t2].logger
            /\ gname[t1] # gname[t2] => gres[t1].logger.id # gres[t2].logger.id
            /\ gres[t1].logger = loggers[gname[t1]]

\* C18 witness: get_logger("api") created a Logger, a later get_logger("api") of
\* another caller returned that instance, and both names are registered.
C18_Witness ==
    /\ SameWindow("g1", "g2")
    /\ gname["g1"] = "api" /\ gname["g2"] = "api"
    /\ created["api"] = 1
    /\ gres["g1"].logger = gres["g2"].logger
    /\ Present("svc") /\ loggers["svc"].id # loggers["api"].id

\* C19: after an initialize that follows another initialize with no shutdown between
\* them, every registered Logger is bound to the new configuration and to the new
\* root's handlers, and so is every Logger a get_logger call made since has returned.
C19_ReinitializeResets ==
    (reinit /\ live /\ rpc = "idle") =>
        /\ \A n \in Names :
              Present(n) => /\ loggers[n].cfg = config.id
                            /\ loggers[n].handlers
                                 = loggers[config.service_name].handlers
        /\ \A t \in Callers :
              (gpc[t] = "done" /\ glive[t] /\ gepoch[t] = epoch) =>
                  /\ gres[t].status = "logger"
                  /\ gres[t].logger.cfg = config.id

\* shutdown's calls on the handlers of one list: flush, close, flush, close, ..
FlushThenClose(ops) ==
    /\ Len(ops) % 2 = 0
    /\ \A i \in 1..Len(ops) : ops[i] = IF i % 2 = 1 THEN "flush" ELSE "close"

\* C20: when shutdown has returned, the handlers of every Logger that was registered
\* have been flushed and then closed (never closed before flushed), the registry is
\* empty and the configuration unset, as at the first start; and a Logger registered
\* by an initialize and get_logger that follow a shutdown is bound to the new
\* configuration and the new handlers.
C20_ShutdownFlushesClosesClears ==
    /\ \A h \in HandlerLists : FlushThenClose(hops[h])
    /\ (everShutdown /\ ~live /\ rpc = "idle") =>
          /\ \A h \in href : Len(hops[h]) >= 2 /\ h \in hclosed
          /\ config = NoConfig
          /\ loggers = [n \in Names |-> NoLogger]
    /\ (live /\ ~reinit /\ rpc = "idle") =>
          \A n \in Names :
              Present(n) => /\ loggers[n].cfg = config.id
                            /\ loggers[n].handlers = config.id

\* C20 witness: a shutdown of a registry with two Loggers sharing the first handler
\* list, then a second initialize and a get_logger whose Logger is bound to the second
\* configuration and handler list.
C20_Witness ==
    /\ Len(hops[1]) = 4
    /\ epoch = 2 /\ live /\ ~reinit /\ rpc = "idle"
    /\ Present("api") /\ loggers["api"].cfg = 2 /\ loggers["api"].handlers = 2

\* a shutdown call made after a shutdown, with no initialize between them: the step
\* that starts it, or one of its later steps
FurtherShutdown == ~live /\ everShutdown /\ (rpc = "idle" \/ href = {})

\* C21: every step of a shutdown call that follows a shutdown, with no initialize
\* between them, leaves the configuration and the registry as they are and makes no
\* call on any handler (the model's shutdown has no raising step).
C21_ShutdownIdempotent ==
    [][(FurtherShutdown /\ rpc' # rpc)
         => UNCHANGED <<config, loggers, nextLogger, epoch, hops, hclosed>>]_vars

\* C21 witness: a shutdown has flushed and closed handlers, and a later shutdown,
\* which found no Logger registered, has returned.
C21_Witness ==
    /\ everShutdown /\ ~live /\ rpc = "idle"
    /\ hclosed # {}
    /\ href = {}

(***************************************************************************)
(* Further claims about the AsyncHandler, checked under SpecAsync.         *)
(***************************************************************************)
\* C22: close() never waits without bound: each of its steps can be taken in every
\* state it is at, whatever the consumer and the producers are doing (the join is
\* left at its timeout when the consumer has not ended); the underlying handler is
\* closed by close() only, which has returned only with the underlying handler
\* closed, and when the consumer ended before the join and no producer writes to the
\* underlying handler, the underlying handler is flushed when close() closes it.
C22_CloseAlwaysReturns ==
    /\ mpc = "close_stop" => ENABLED CloseSetStop
    /\ mpc = "close_sentinel" => ENABLED ClosePutSentinel
    /\ mpc = "close_join" => ENABLED CloseJoin
    /\ mpc = "close_flush" => ENABLED CloseFlushUnderlying
    /\ mpc = "close_close" => ENABLED CloseCloseUnderlying
    /\ mpc = "closed" <=> underlying.closed
    /\ (mpc = "close_close" /\ ~joinTimedOut /\ on_full # "fallback")
          => underlying.clean

\* C22 witness: close() has returned, the underlying handler closed, although the
\* consumer thread had not ended when the join was left and still holds a record.
C22_Witness ==
    /\ mpc = "closed" /\ underlying.closed
    /\ joinTimedOut /\ cpc # "done" /\ batch # <<>>

\* the records that entered the queue, in the order the underlying handler, the
\* consumer's batch and the queue hold them: those the consumer has passed to the
\* underlying handler, the rest of its batch, the records still queued
Pipeline ==
    SelectSeq(delivered, LAMBDA r : r \in accepted)
        \o SubSeq(batch, fidx, Len(batch))
        \o SelectSeq(queue, LAMBDA r : r # Sentinel)

\* C23: the records that entered the queue are passed to the underlying handler in
\* the order they were enqueued: a step either leaves the line of delivered, batched
\* and queued records as it is or adds the record it enqueues at its end, so no
\* record overtakes a record enqueued before it. (The synchronous writes of the
\* Fallback policy never enter the queue and are not in that line.)
C23_QueueOrderKept ==
    [][\/ Pipeline' = Pipeline
       \/ \E p \in Producers : Pipeline' = Append(Pipeline, prec[p])]_vars

\* C23 witness: two records that entered the queue have both been passed to the
\* underlying handler, the one emitted second (which was enqueued first) first, and a
\* third record is still queued behind them.
C23_Witness ==
    /\ Len(delivered) >= 2
    /\ delivered[1] \in accepted /\ delivered[2] \in accepted
    /\ delivered[1] > delivered[2]
    /\ \E i \in 1..Len(queue) : queue[i] # Sentinel

\* C24: the queue never holds more than its capacity, the sentinel counted, under
\* every overflow policy and with producers emitting concurrently.
C24_QueueBounded == Len(queue) <= QueueCap

\* C24 witness: the queue is at its capacity with the sentinel in it, and a producer
\* has found it full.
C24_Witness ==
    /\ Len(queue) = QueueCap
    /\ \E i \in 1..Len(queue) : queue[i] = Sentinel
    /\ \E p \in Producers : ppc[p] = "full"


\* C28: the consumer stops only upon reading the sentinel (at the get that reads it,
\* or at the end of the flush that follows it): at the step that stops it, its batch
\* has been delivered and no record is left in the queue ahead of a sentinel.
C28_StopsOnlyAtSentinel ==
    [][(cpc # "done" /\ cpc' = "done") =>
          /\ cpc \in {"get", "final"}
          /\ batch' = <<>>
          /\ \A i \in 1..Len(queue') :
                queue'[i] = Sentinel => \A j \in 1..i : queue'[j] = Sentinel]_vars

\* the records the consumer passed to the underlying handler, in order
Flushed == SelectSeq(delivered, LAMBDA r : r \in accepted)

\* C31: the batch never holds more than B records, a batch of B records is flushed
\* before the consumer dequeues again, a flush passes the batch's records to the
\* underlying emit one by one in dequeue order, and no record is emitted twice.
C31_BatchFlush ==
    /\ Len(batch) <= BatchSize
    /\ cpc \in {"loop", "get"} => Len(batch) < BatchSize
    /\ cpc \in {"flush", "final"} =>
          /\ fidx - 1 <= Len(Flushed)
          /\ SubSeq(batch, 1, fidx - 1)
               = SubSeq(Flushed, Len(Flushed) - (fidx - 1) + 1, Len(Flushed))
    /\ \A i, j \in 1..Len(delivered) : delivered[i] = delivered[j] => i = j

\* C31 witness: a batch of one record was flushed on the timeout, and a full batch of
\* B records is now being flushed, its first record already emitted.
C31_Witness ==
    /\ cpc = "flush" /\ Len(batch) = BatchSize /\ fidx = 2
    /\ Len(Flushed) = 2
    /\ Flushed[2] = batch[1]

\* C33: when flush() returns, its timeout not elapsed and no producer inside emit
\* while it ran, every record enqueued before the call has been passed to the
\* underlying handler: none is left in the queue or in the consumer's batch.
C33_FlushDelivers ==
    [][(mpc = "flush_under" /\ mpc' # "flush_under" /\ ~flushTimedOut /\ ~busyShutdown)
          => /\ accepted \subseteq Range(delivered')
             /\ queue' = <<>>
             /\ batch' = <<>>]_vars

\* C34: under the Block policy, once close() has returned and the consumer thread has
\* ended, no producer is left blocked in emit: a producer waiting to enqueue can
\* take its step (nothing else would ever make room in the queue for it).
C34_BlockedProducerReleased ==
    (on_full = "block" /\ mpc = "closed" /\ cpc = "done") =>
        \A p \in Producers : ppc[p] = "put" => ENABLED EmitPut(p)

\* C35: dropped_count never decreases; under Drop and Fallback, with concurrent
\* producers, it equals the number of emit calls that found the queue full (a call
\* that found it full and has not yet counted itself is still inside emit); under
\* Block it stays 0.
C35_DroppedCountExact ==
    [][/\ dropped_count' >= dropped_count
       /\ dropped_count' + Cardinality({p \in Producers : ppc'[p] = "full"})
            = Cardinality(fullSeen')
       /\ on_full = "block" => dropped_count' = 0]_vars

\* C35 witness: under Fallback two emit calls found the queue full at the same time:
\* one has counted itself and is writing synchronously, the other is about to count.
C35_Witness ==
    /\ on_full = "fallback"
    /\ dropped_count = 1
    /\ \E p, q \in Producers : ppc[p] = "full" /\ ppc[q] = "fallback"

\* C40: once close() has set the stop flag, the consumer thread eventually ends,
\* whether or not the sentinel could be enqueued (checked under SpecAsyncLive, where
\* the consumer thread keeps being scheduled and every underlying emit returns).
C40_ConsumerTerminates == stop ~> (cpc = "done")

\* C40 witness: close() found the queue full, so no sentinel was enqueued, and the
\* consumer has ended.
C40_Witness ==
    /\ mpc = "closed" /\ cpc = "done"
    /\ Len(queue) = QueueCap
    /\ \A i \in 1..Len(queue) : queue[i] # Sentinel

(***************************************************************************)
(* I/O failures inside emit, checked under SpecFailure.                    *)
(***************************************************************************)
\* C25: when the emit calls of a built-in handler have returned, none raised into
\* its caller and every I/O failure that occurred inside them was reported on
\* standard error.
C25_EmitFailureReported ==
    epc = "idle" => (propagated = 0 /\ stderr >= failures)

(***************************************************************************)
(* Further claims about the file handlers, checked under SpecFile.         *)
(***************************************************************************)
\* the bytes of record r in the primary file
PrimaryBytes(r) == Cardinality({k \in 1..Len(disk[0].data) : disk[0].data[k] = r})

\* C26: with max_bytes <= 0 the rotating handler never rotates: no rotation has run,
\* no backup file exists, and (the handler not closed) every record whose emit has
\* returned is in the primary file P with all its bytes, whatever its size.
C26_NoRotationWhenDisabled ==
    (kind = "rotating" /\ max_bytes <= 0) =>
        /\ rotations = 0
        /\ disk[0].exists
        /\ \A i \in 1..(MaxBackup + 1) : ~disk[i].exists
        /\ ~closedEver =>
              \A k \in 1..Len(emitted) : PrimaryBytes(emitted[k]) = recSize[emitted[k]]

\* C26 witness: rotation disabled, every emit of the run has returned, and P has
\* grown past every positive threshold of the model.
C26_Witness ==
    /\ kind = "rotating" /\ max_bytes <= 0
    /\ WritersIdle /\ ~closedEver
    /\ Len(emitted) = MaxWrites
    /\ Len(disk[0].data) > 2 * MaxWrites

\* C29: a rotation with backup_count = N >= 1 leaves, for every i in 1..N-1 whose
\* P.i existed, the former P.i as P.(i+1); the former P as P.1; the former P.N
\* nowhere (and no file beyond P.N); P freshly opened and empty, the size counter 0.
C29_RotationPostState ==
    [][(kind = "rotating" /\ backup_count >= 1 /\ rotations' = rotations + 1) =>
          /\ \A i \in 1..(backup_count - 1) : disk[i].exists => disk'[i + 1] = disk[i]
          /\ disk'[1].exists /\ disk'[1].data = disk[0].data
          /\ \A i \in (backup_count + 1)..(MaxBackup + 1) : ~disk'[i].exists
          /\ disk[backup_count].exists =>
                \A k \in 1..Len(disk[backup_count].data) :
                    BytesOf(disk', disk[backup_count].data[k]) = 0
          /\ disk'[0].exists /\ disk'[0].data = <<>>
          /\ fopen'
          /\ current_size' = 0]_vars

\* C29 witness: with three backups kept, a fourth rotation has run: P.1, P.2 and P.3
\* hold the three latest rotated contents and the oldest one has been discarded.
C29_Witness ==
    /\ kind = "rotating" /\ backup_count = 3
    /\ rotations = 4
    /\ disk[1].exists /\ disk[2].exists /\ disk[3].exists /\ ~disk[4].exists
    /\ discarded

\* C30: in every state of a RotatingFileHandler in which no emit is inside its
\* critical section (the counter and the file are only touched under the mutex), the
\* size counter equals the size of the primary file P: seeded from P's size at open,
\* advanced by each written record's byte length, 0 after a rotation.
C30_CounterEqualsSizeOutsideEmit ==
    (kind = "rotating" /\ LockFree) => current_size = Len(disk[0].data)

\* C30 witness: after a rotation and two returned emits, with the mutex free, the
\* counter is positive and equals the size of P.
C30_Witness ==
    /\ kind = "rotating" /\ LockFree
    /\ rotations >= 1
    /\ Len(emitted) >= 2
    /\ current_size >= 2
    /\ current_size = Len(disk[0].data)

\* C32: close() is absorbing: every step of an emit that was called after close()
\* returned writes no byte to any file, performs no rotation (no rename, no delete)
\* and does not reopen the file.
C32_CloseAbsorbing ==
    [][\A w \in Writers :
          (wrec[w] \in lateEmits /\ wpc[w] # "idle" /\ wpc'[w] # wpc[w]) =>
              /\ disk' = disk
              /\ rotations' = rotations
              /\ fopen' = fopen]_vars

\* the records of a file made of whole lines, in order
RECURSIVE Records(_)
Records(data) ==
    IF data = <<>> THEN <<>>
    ELSE <<Head(data)>> \o Records(SubSeq(data, recSize[Head(data)] + 1, Len(data)))

\* the records read from P.i, P.(i-1), ..., P.1, P in that order
RECURSIVE ReadFrom(_)
ReadFrom(i) == IF i < 0 THEN <<>> ELSE Records(disk[i].data) \o ReadFrom(i - 1)

IsSuffix(s, t) == Len(s) <= Len(t) /\ s = SubSeq(t, Len(t) - Len(s) + 1, Len(t))

\* C37: with backup_count = N >= 1, whenever no write is in progress (the handler not
\* closed), every file holds whole records only, and reading P.N, ..., P.1, P in
\* that order yields, each record once, a contiguous suffix of the records in the
\* order they were written: the line P held at open, if any, then the emitted ones.
C37_RotationKeepsSuffix ==
    (kind = "rotating" /\ backup_count >= 1 /\ LockFree /\ ~closedEver) =>
        /\ \A i \in Indexes : WholeLines(disk[i].data)
        /\ IsSuffix(ReadFrom(backup_count), <<OldLine>> \o emitted)

\* C37 witness: with one backup kept, three rotations have run: the oldest records
\* are gone and P.1 and P hold the latest ones.
C37_Witness ==
    /\ kind = "rotating" /\ backup_count = 1 /\ LockFree /\ ~closedEver
    /\ rotations = 3
    /\ Len(ReadFrom(1)) = 2
    /\ Len(emitted) = MaxWrites

\* C38: with max_bytes > 0, when an emit returns and no record emitted so far was
\* larger than max_bytes, the size counter is at most max_bytes, and so is the
\* primary file.
C38_CounterWithinThreshold ==
    [][\A w \in Writers :
          (/\ kind = "rotating" /\ max_bytes > 0
           /\ wpc[w] = "flush" /\ wpc'[w] = "idle"
           /\ \A k \in 1..Len(emitted') : recSize[emitted'[k]] <= max_bytes)
          => /\ current_size' <= max_bytes
             /\ Len(disk'[0].data) <= max_bytes]_vars

\* C38 witness: a rotation has run, three emits have returned, none of a record
\* larger than max_bytes, and the primary file is filled exactly to the threshold.
C38_Witness ==
    /\ kind = "rotating" /\ max_bytes > 0 /\ LockFree /\ ~closedEver
    /\ rotations >= 1
    /\ Len(emitted) >= 3
    /\ \A k \in 1..Len(emitted) : recSize[emitted[k]] <= max_bytes
    /\ current_size = max_bytes

\* C39: the rotating handler rotates only a non-empty primary file: no rotation step
\* starts from an empty P (which would move an empty file into P.1 and shift or
\* evict the backups).
C39_RotatesNonEmptyOnly ==
    [][(kind = "rotating" /\ rotations' = rotations + 1) => disk[0].data # <<>>]_vars

(***************************************************************************)
(* The mapping returned by Logger.context, checked under SpecView.         *)
(***************************************************************************)
\* C27: whatever is done through the mapping Logger.context returned (a key added or
\* replaced, a value mutated, a nested one included), the Logger's stored context
\* reads as it did when the mapping was taken, and a later log call emits that
\* context.
C27_ContextIsACopy ==
    before.taken =>
        /\ Resolved(stored, heap) = before.context
        /\ sent.logged => sent.context = before.context

====
